---- MODULE Spec2Model ----
(***************************************************************************)
(* Toadbox Manager: the instance lifecycle controller of                   *)
(* src/toadbox-manager/src/toadbox_manager/__init__.py.                    *)
(*                                                                         *)
(* The application is one asyncio event loop on one thread.  Key bindings  *)
(* (the action_ methods) run on that thread and schedule coroutines with   *)
(* asyncio.create_task; the coroutines contain no suspending await and     *)
(* call subprocess.run, which blocks the thread until the child process    *)
(* has ended.  A step of the model is the code the thread runs between two *)
(* points where it blocks in subprocess.run (or returns to the loop).      *)
(*                                                                         *)
(* Modelling boundaries: the widgets (DataTable, status bar) are total;    *)
(* the registry file ~/.toadbox-manager.json is writable; every call of    *)
(* shutil.which and every external command answers freely (the operator    *)
(* may install or remove a binary between two calls).                      *)
(*                                                                         *)
(* Three specifications share the actions.  Spec: two instance names, each *)
(* key press handled after the coroutine of the one before has run.        *)
(* SpecBurst: one instance name, up to MaxBurst key presses handled before *)
(* the loop starts the first coroutine (keys typed while the thread was    *)
(* blocked are delivered together), so a coroutine can run on an object    *)
(* an earlier one has removed from the dict.  SpecStore: the Registry      *)
(* Store alone, on registries of records in every status and on registry   *)
(* files a new process can find.                                           *)
(*                                                                         *)
(* Three more call one method directly, as the unit tests do, and keep     *)
(* what it gave back in the variable observed.  SpecStatus:                *)
(* get_compose_status; SpecDriver: run_docker_compose; both against an     *)
(* external system, the variable world, that answers the same way every    *)
(* time.  SpecCompose: generate_docker_compose.                            *)
(*                                                                         *)
(* SpecComposeLive and SpecShared run the application against a world      *)
(* that stays as it is: the first generates compose documents between the  *)
(* steps, the second has workspace folders with the same last component    *)
(* and a docker binary without its compose plugin.  SpecAttach calls       *)
(* terminal.attach_command, SpecConnect the VNC key binding, each against  *)
(* a fixed set of installed programs; SpecSsh the SSH key binding on a     *)
(* registry that is empty or holds one record in any status.  SpecSingle   *)
(* is Spec with one instance name, and FairSingle adds to it that the loop *)
(* starts a ready coroutine and that every subprocess.run returns.         *)
(***************************************************************************)
EXTENDS Integers, Sequences, FiniteSets, TLC

VARIABLES
    heap,       \* the ToadboxInstance objects alive: object id -> fields
    instances,  \* self.instances: the dict's keys in insertion order
    disk,       \* the registry file: NoFile, or the JSON document written last
    queue,      \* coroutines scheduled by asyncio.create_task, not yet started
    cur,        \* the coroutine occupying the thread (Idle: the loop is free)
    inflight,   \* external processes launched and not yet ended
    statusBar,  \* the text the status bar holds
    writes,     \* how many times the last step wrote the registry file
    world,      \* the external system a direct caller of a method has fixed
    observed    \* what direct calls of a method gave back, oldest first

vars == <<heap, instances, disk, queue, cur, inflight, statusBar, writes,
          world, observed>>

----------------------------------------------------------------------------
(* Bounds of the model. *)

\* coroutines that may wait in the loop's ready queue at once
MaxQueue == 1

\* the same, in the specification with key presses handled in a burst
MaxBurst == 2

\* workspace folders the operator picks, as sequences of path characters
FolderA == <<"/", "a", "-", "B">>
FolderB == <<"/", "c">>
Folders == {FolderA, FolderB}

\* an SSH port the operator types instead of the default
OtherSshPort == 2223

\* how many direct calls of a method a caller makes
MaxCalls == 2

----------------------------------------------------------------------------
(* InstanceStatus and ToadboxInstance. *)

\* enum members of InstanceStatus
InstanceStatus == {"STOPPED", "RUNNING", "STARTING", "STOPPING", "ERROR"}

\* InstanceStatus.<member>.value
StatusValue(s) ==
    CASE s = "STOPPED"  -> "stopped"
      [] s = "RUNNING"  -> "running"
      [] s = "STARTING" -> "starting"
      [] s = "STOPPING" -> "stopping"
      [] s = "ERROR"    -> "error"

\* None for Optional[str] fields held as character sequences
NoPath == <<>>

\* the dataclass fields, in declaration order
InstanceFields ==
    {"name", "workspace_folder", "cpu_cores", "memory_mb", "priority",
     "ssh_port", "vnc_port", "puid", "pgid", "status", "compose_file",
     "container_id"}

\* ToadboxInstance(name=..., workspace_folder=..., ...) as the create form
\* builds it: status, compose_file and container_id take their defaults
NewInstance(name, folder, cpu, mem, prio, ssh, vnc, puid, pgid) ==
    [name |-> name, workspace_folder |-> folder, cpu_cores |-> cpu,
     memory_mb |-> mem, priority |-> prio, ssh_port |-> ssh, vnc_port |-> vnc,
     puid |-> puid, pgid |-> pgid, status |-> "STOPPED",
     compose_file |-> NoPath, container_id |-> "None"]

\* Path(p).name: the characters after the last separator
RECURSIVE PathName(_)
PathName(p) ==
    IF p = <<>> THEN <<>>
    ELSE IF p[Len(p)] = "/" THEN <<>>
    ELSE Append(PathName(SubSeq(p, 1, Len(p) - 1)), p[Len(p)])

\* str.replace('-', '_') then str.lower(), one character
NormChar(c) ==
    CASE c = "-" -> "_"
      [] c = "A" -> "a"
      [] c = "B" -> "b"
      [] c = "C" -> "c"
      [] OTHER   -> c

\* ToadboxInstance.service_name
ServiceName(inst) ==
    LET n == PathName(inst.workspace_folder)
    IN  [i \in 1 .. Len(n) |-> NormChar(n[i])]

\* ToadboxInstance.hostname
HostName(inst) == <<"toadbox-">> \o PathName(inst.workspace_folder)

\* the path save_docker_compose writes: <workspace>/.toadbox/docker-compose.yml
ComposePath(inst) ==
    inst.workspace_folder \o <<"/", ".toadbox", "/", "docker-compose.yml">>

----------------------------------------------------------------------------
(* Registry Store: to_dict / from_dict, save_config / load_config. *)

DefaultCpuCores == 2
DefaultMemoryMb == 4096
DefaultSshPort == 2222
DefaultVncPort == 5901
DefaultPuid == 1000
DefaultPgid == 1000

\* the dataclass defaults
FieldDefault(f) ==
    CASE f = "cpu_cores"    -> DefaultCpuCores
      [] f = "memory_mb"    -> DefaultMemoryMb
      [] f = "priority"     -> "low"
      [] f = "ssh_port"     -> DefaultSshPort
      [] f = "vnc_port"     -> DefaultVncPort
      [] f = "puid"         -> DefaultPuid
      [] f = "pgid"         -> DefaultPgid
      [] f = "status"       -> "STOPPED"
      [] f = "compose_file" -> NoPath
      [] f = "container_id" -> "None"

\* fields of ToadboxInstance without a default
RequiredFields == {"name", "workspace_folder"}

\* a to_dict that leaves the enum member in place of its value
ToDictRaw(inst) == inst

\* ToadboxInstance.to_dict: asdict(self), status replaced by its value
ToDict(inst) == [inst EXCEPT !.status = StatusValue(inst.status)]

\* a from_dict that leaves the status at the default whatever the file says
FromDictStopped(data) ==
    LET keys == (DOMAIN data) \ {"service_name", "hostname"}
    IN  IF keys \subseteq InstanceFields /\ RequiredFields \subseteq keys
        THEN [ok |-> TRUE,
              inst |-> [f \in InstanceFields |->
                          IF f = "status" THEN "STOPPED"
                          ELSE IF f \in keys THEN data[f]
                          ELSE FieldDefault(f)]]
        ELSE [ok |-> FALSE, inst |-> <<>>]

\* ToadboxInstance.from_dict on a JSON object (a function of its keys):
\* ok = FALSE stands for the ValueError of InstanceStatus(...) or the
\* TypeError of cls(**data)
FromDict(data) ==
    LET keys == (DOMAIN data) \ {"service_name", "hostname"}
        statusOk ==
            ("status" \in DOMAIN data) =>
                (\E s \in InstanceStatus : StatusValue(s) = data["status"])
        status ==
            IF "status" \in DOMAIN data
            THEN CHOOSE s \in InstanceStatus : StatusValue(s) = data["status"]
            ELSE "STOPPED"
    IN  IF statusOk /\ keys \subseteq InstanceFields /\ RequiredFields \subseteq keys
        THEN [ok |-> TRUE,
              inst |-> [f \in InstanceFields |->
                          IF f = "status" THEN status
                          ELSE IF f \in keys THEN data[f]
                          ELSE FieldDefault(f)]]
        ELSE [ok |-> FALSE, inst |-> <<>>]

\* The registry file: whether it exists, what its content is ("object": a
\* JSON object; "garbled": not JSON; "unreadable": open() fails) and, for
\* an object, the items of its 'instances' in file order.

\* no registry file yet
NoFile == [exists |-> FALSE, content |-> "object", instances |-> <<>>]

\* Object identity.  The object self.instances holds under key n has the
\* id <<n, 0>>.  An object that was removed from the dict while a coroutine
\* still holds a reference to it lives on under an id <<n, k>>, k > 0.
Obj(n) == <<n, 0>>

\* the values of self.instances in insertion order
RegistryValues(h, ins) == [i \in 1 .. Len(ins) |-> h[Obj(ins[i])]]

\* save_config: {'instances': {name: instance.to_dict()}}, json.dump
SaveConfig(regs) ==
    [exists |-> TRUE,
     content |-> "object",
     instances |-> [i \in 1 .. Len(regs) |->
                      [key |-> regs[i].name, val |-> ToDict(regs[i])]]]

\* load_config, lines 954-961: whether open, json.load or a from_dict
\* raises
LoadRaises(file) ==
    \/ file.content # "object"
    \/ \E i \in 1 .. Len(file.instances) : ~FromDict(file.instances[i].val).ok

\* a load_config that skips the records from_dict cannot decode
LoadConfigPartial(file, old) ==
    IF ~file.exists \/ file.content # "object" THEN old
    ELSE LET good == SelectSeq(file.instances,
                               LAMBDA it : FromDict(it.val).ok)
         IN  [i \in 1 .. Len(good) |->
                 [key |-> good[i].key, inst |-> FromDict(good[i].val).inst]]

\* load_config: a missing file, or an exception while reading or decoding,
\* leaves self.instances as it was (old); otherwise the dict is rebuilt
\* from the file, one from_dict per key
LoadConfig(file, old) ==
    IF ~file.exists THEN old
    ELSE IF LoadRaises(file) THEN old
    ELSE [i \in 1 .. Len(file.instances) |->
             [key |-> file.instances[i].key,
              inst |-> FromDict(file.instances[i].val).inst]]

\* load_config, lines 962-963: what it prints
LoadPrints(file) ==
    IF file.exists /\ LoadRaises(file) THEN "Error loading config" ELSE ""

\* self.instances as the sequence of its items
Items(h, ins) == [i \in 1 .. Len(ins) |-> [key |-> ins[i], inst |-> h[Obj(ins[i])]]]

----------------------------------------------------------------------------
(* The external world: binaries on the search path and process outcomes. *)

\* how subprocess.run of [docker, "compose", "version"] ends
ProbeOutcomes == {"exit0", "nonzero", "timeout", "oserror"}

\* an environment: whether shutil.which("docker") and
\* shutil.which("docker-compose") find a binary
Envs == [docker : BOOLEAN, legacy : BOOLEAN]

\* what a child process may print on a stream
StderrTexts == {"", " ", "err"}
StdoutTexts == {"", "out"}

\* how subprocess.run of a compose command ends
CmdOutcomes ==
    [kind : {"exit"}, rc : {0, 1}, stderr : StderrTexts, stdout : StdoutTexts]
    \cup {[kind |-> k, rc |-> 0, stderr |-> "", stdout |-> ""] :
            k \in {"timeout", "oserror"}}

\* service names a "ps --services" may list
ListedServices == {ServiceName([workspace_folder |-> f]) : f \in Folders}

\* how subprocess.run of the ps query ends; stdout is the set of lines
PsOutcomes ==
    [kind : {"exit"}, rc : {0, 1}, stdout : SUBSET ListedServices]
    \cup {[kind |-> k, rc |-> 0, stdout |-> {}] : k \in {"timeout", "oserror"}}

\* str.strip()
Strip(t) == IF t = " " THEN "" ELSE t

\* run_docker_compose, line 781: stderr if non-empty after strip, else stdout
Output(out) ==
    IF Strip(out.stderr) # "" THEN Strip(out.stderr) ELSE Strip(out.stdout)

\* run_docker_compose's (ok, message) for an ended command, lines 781-786
CmdResult(out) ==
    CASE out.kind = "exit"    -> [ok |-> out.rc = 0, msg |-> Output(out)]
      [] out.kind = "timeout" -> [ok |-> FALSE, msg |-> "compose timed out"]
      [] out.kind = "oserror" -> [ok |-> FALSE, msg |-> "Failed to run compose"]

\* run_docker_compose, line 766
NotFoundMsg == "Neither 'docker compose' nor 'docker-compose' is available"

\* get_compose_status, lines 840-846, for an ended ps query
PsResult(out, inst) ==
    IF out.kind # "exit" THEN "ERROR"
    ELSE IF out.rc = 0 /\ ServiceName(inst) \in out.stdout THEN "RUNNING"
    ELSE "STOPPED"

\* a probe verdict that takes any exit of the probe for success
PluginByProbeAnyExit(outcome) == outcome \in {"exit0", "nonzero"}

\* the probe's verdict in run_docker_compose, lines 746-759: the plugin is
\* used iff the probe exits 0; OSError and TimeoutExpired are swallowed
PluginByProbe(outcome) == outcome = "exit0"

\* the probe's verdict in get_compose_status, line 822, when it returns
StatusPluginByProbe(outcome) == outcome = "exit0"

\* whether the probe raises out of get_compose_status's try, lines 815-822
ProbeRaises(outcome) == outcome \in {"timeout", "oserror"}

\* an external process: who it was launched for and its command line
Proc(inst, o, bin, action, flags) ==
    [obj |-> o, name |-> inst.name, bin |-> bin,
     project |-> IF action = "version" THEN <<>> ELSE ServiceName(inst),
     action |-> action, flags |-> flags]

\* a run that leaves the child alive when the timeout expires
ReapNoKill(infl, o, kind) ==
    IF kind = "timeout" THEN infl ELSE {p \in infl : p.obj # o}

\* the processes still running once subprocess.run has returned with
\* outcome kind: run waits for the child, and on a timeout kills it first
Reap(infl, o, kind) == {p \in infl : p.obj # o}

----------------------------------------------------------------------------
(* The thread's state and the effects shared by the coroutines. *)

\* the environment of a frame that is not inside a binary discovery
NoEnv == [docker |-> FALSE, legacy |-> FALSE]

\* wasRunning: the test of line 1106 held when delete_instance_async began
Idle ==
    [op |-> "idle", obj |-> Obj(""), phase |-> "none", pc |-> "idle", idx |-> 0,
     env |-> NoEnv, wasRunning |-> FALSE]

\* the frame of a coroutine that has just been started by the loop
Frame(task) ==
    [op |-> task.op, obj |-> task.obj, phase |-> "none", pc |-> "run",
     idx |-> 0, env |-> NoEnv, wasRunning |-> FALSE]

\* the application runs against the real system, which no caller has fixed
NoWorld ==
    [env |-> NoEnv, probe |-> "none", ps |-> "none", cmd |-> "none",
     fsOk |-> TRUE]

\* the mutable program state a step works on
Machine ==
    [heap |-> heap, instances |-> instances, disk |-> disk, cur |-> cur,
     inflight |-> inflight, statusBar |-> statusBar, writes |-> 0,
     observed |-> observed]

\* the dict's keys
Keys(ins) == {ins[i] : i \in 1 .. Len(ins)}

\* instance.status = s
SetStatus(m, o, s) == [m EXCEPT !.heap[o].status = s]

\* refresh_table: the rows are rebuilt and the status bar shows the counts
RefreshTable(m) ==
    [m EXCEPT !.statusBar = [kind |-> "summary", name |-> "", detail |-> ""]]

\* show_error
ShowError(m, kind, name, detail) ==
    [m EXCEPT !.statusBar = [kind |-> kind, name |-> name, detail |-> detail]]

\* self.save_config()
SaveCfg(m) ==
    [m EXCEPT !.disk = SaveConfig(RegistryValues(m.heap, m.instances)),
              !.writes = @ + 1]

\* the coroutine returns: the thread goes back to the event loop
Finish(m) == [m EXCEPT !.cur = Idle]

\* the thread blocks in subprocess.run on a launched process; while the
\* probe runs e holds the locals docker_bin and docker_compose_bin
Block(m, pc, proc, e) ==
    [m EXCEPT !.cur.pc = pc, !.cur.env = e, !.inflight = @ \cup {proc}]

\* subprocess.run returns (or raises) with outcome kind
Unblock(m, kind) ==
    [m EXCEPT !.cur.pc = "run", !.cur.env = NoEnv,
              !.inflight = Reap(@, m.cur.obj, kind)]

----------------------------------------------------------------------------
(* The coroutines.  Each operator runs the code from one point to the next *)
(* point where the thread blocks in subprocess.run, or to the coroutine's  *)
(* end.  w is what the world answers during the step: w.fsOk, whether   *)
(* writing a compose file succeeds; w.env, what the next binary discovery  *)
(* finds; w.docker, what the which("docker") of line 1132 finds.  An       *)
(* action draws the answers its step can ask for.                          *)

World(fsOk, e, docker) == [fsOk |-> fsOk, env |-> e, docker |-> docker]

RECURSIVE GcsReturn(_, _, _), RefreshLoop(_, _, _), RdcEnter(_, _, _),
          DeleteTeardown(_, _)

\* get_compose_status, lines 824-838: choose the ps command and launch it
GcsSelect(m, e, plugin, w) ==
    LET o == m.cur.obj
        inst == m.heap[o]
        flags == {"--services", "--filter", "status=running"}
    IN  IF plugin
        THEN Block(m, "ps", Proc(inst, o, "docker compose", "ps", flags),
                   NoEnv)
        ELSE IF e.legacy
        THEN Block(m, "ps", Proc(inst, o, "docker-compose", "ps", flags),
                   NoEnv)
        ELSE GcsReturn(m, "ERROR", w)

\* a get_compose_status without the test of lines 790-791
GcsEnterNoFileTest(m, w) ==
    LET o == m.cur.obj
        inst == m.heap[o]
    IN  IF w.env.docker
        THEN Block(m, "probe",
                   Proc(inst, o, "docker compose", "version", {}), w.env)
        ELSE GcsSelect(m, w.env, FALSE, w)

\* get_compose_status, lines 788-822: up to the probe (or the ps query)
GcsEnter(m, w) ==
    LET o == m.cur.obj
        inst == m.heap[o]
    IN  IF inst.compose_file = NoPath
        THEN GcsReturn(m, "STOPPED", w)
        ELSE IF w.env.docker
        THEN Block(m, "probe",
                   Proc(inst, o, "docker compose", "version", {}), w.env)
        ELSE GcsSelect(m, w.env, FALSE, w)

\* what a direct caller keeps of a call: the method, its argument and the
\* value it gave back
Observation(call, arg, value) == [call |-> call, arg |-> arg, value |-> value]

\* a refresh that writes the registry file after every record
GcsReturnSaving(m, st, w) ==
    LET m1 == SetStatus(m, m.cur.obj, st)
    IN  IF m.cur.op = "query"
        THEN Finish([m EXCEPT !.observed =
                        Append(@, Observation("get_compose_status",
                                              m.heap[m.cur.obj].name, st))])
        ELSE IF m.cur.op = "refresh"
        THEN RefreshLoop(SaveCfg(m1), m.cur.idx + 1, w)
        ELSE Finish(RefreshTable(SaveCfg(m1)))

\* a get_compose_status that stores the status it is about to return
GcsReturnAssigning(m, st, w) ==
    LET m1 == SetStatus(m, m.cur.obj, st)
    IN  IF m.cur.op = "query"
        THEN Finish([m1 EXCEPT !.observed =
                        Append(@, Observation("get_compose_status",
                                              m.heap[m.cur.obj].name, st))])
        ELSE IF m.cur.op = "refresh"
        THEN RefreshLoop(m1, m.cur.idx + 1, w)
        ELSE Finish(RefreshTable(SaveCfg(m1)))

\* get_compose_status has returned st to its caller: start_instance_async
\* lines 1055-1057, the loop of refresh_statuses_async, line 1223, or a
\* direct caller, which only keeps the value
GcsReturn(m, st, w) ==
    LET m1 == SetStatus(m, m.cur.obj, st)
    IN  IF m.cur.op = "query"
        THEN Finish([m EXCEPT !.observed =
                        Append(@, Observation("get_compose_status",
                                              m.heap[m.cur.obj].name, st))])
        ELSE IF m.cur.op = "refresh"
        THEN RefreshLoop(m1, m.cur.idx + 1, w)
        ELSE Finish(RefreshTable(SaveCfg(m1)))

\* refresh_statuses_async, lines 1222-1226, from the idx-th dict value on
RefreshLoop(m, idx, w) ==
    IF idx > Len(m.instances)
    THEN Finish(RefreshTable(SaveCfg(m)))
    ELSE GcsEnter([m EXCEPT !.cur.idx = idx,
                            !.cur.obj = Obj(m.instances[idx]),
                            !.cur.phase = "status"], w)

\* a start_instance_async that redraws after it has shown the failure
StartAfterUpRedrawLast(m, res, w) ==
    LET o == m.cur.obj
    IN  IF res.ok
        THEN GcsEnter([m EXCEPT !.cur.phase = "status"], w)
        ELSE Finish(RefreshTable(ShowError(SetStatus(m, o, "ERROR"),
                              "start_failed", m.heap[o].name, res.msg)))

\* start_instance_async, lines 1053-1062: after run_docker_compose returned
StartAfterUp(m, res, w) ==
    LET o == m.cur.obj
    IN  IF res.ok
        THEN GcsEnter([m EXCEPT !.cur.phase = "status"], w)
        ELSE Finish(ShowError(RefreshTable(SetStatus(m, o, "ERROR")),
                              "start_failed", m.heap[o].name, res.msg))

\* an except branch that reports the failure and leaves the status alone
StartExceptKeepStatus(m, e) ==
    Finish(ShowError(RefreshTable(m), "start_exception", "", e))

\* start_instance_async, lines 1064-1067: the except branch
StartExcept(m, e) ==
    Finish(ShowError(RefreshTable(SetStatus(m, m.cur.obj, "ERROR")),
                     "start_exception", "", e))

\* a delete that removes the entry the dict holds first
DeleteRemoveFirst(m) ==
    IF m.instances # <<>>
    THEN Finish(RefreshTable(SaveCfg([m EXCEPT !.instances = Tail(@)])))
    ELSE Finish(ShowError(m, "delete_exception", "", "KeyError"))

\* delete_instance_async, lines 1148-1154: del self.instances[name], save,
\* redraw; a KeyError lands in the except branch
DeleteRemove(m) ==
    LET name == m.heap[m.cur.obj].name
        kept == SelectSeq(m.instances, LAMBDA x : x # name)
    IN  IF name \in Keys(m.instances)
        THEN Finish(RefreshTable(SaveCfg([m EXCEPT !.instances = kept])))
        ELSE Finish(ShowError(m, "delete_exception", "", "KeyError"))

\* delete_instance_async, lines 1153-1154: the except branch
DeleteExcept(m, e) == Finish(ShowError(m, "delete_exception", "", e))

\* delete_instance_async, lines 1112-1146: after run_docker_compose("down")
DeleteAfterDown(m, res, w) ==
    LET o == m.cur.obj
        inst == m.heap[o]
        bin == IF w.docker THEN "docker compose" ELSE "docker-compose"
    IN  IF res.ok
        THEN IF inst.compose_file # NoPath
             THEN Block([m EXCEPT !.cur.phase = "downv"], "downv",
                        Proc(inst, o, bin, "down", {"-v"}), NoEnv)
             ELSE DeleteRemove(m)
        ELSE DeleteRemove(ShowError(m, "remove_failed", inst.name, res.msg))

\* a delete that gives up when its stop has not left the instance stopped
StopDoneIfStopped(m, w) ==
    IF m.cur.op = "delete" /\ m.heap[m.cur.obj].status = "STOPPED"
    THEN DeleteTeardown(m, w)
    ELSE Finish(m)

\* the end of stop_instance_async: inside delete_instance_async (line 1107)
\* the teardown follows, otherwise the coroutine ends
StopDone(m, w) ==
    IF m.cur.op = "delete" THEN DeleteTeardown(m, w) ELSE Finish(m)

\* a stop_instance_async that takes the instance for stopped whatever the
\* driver returned
StopAfterAssumeStopped(m, res, w) ==
    StopDone(RefreshTable(SaveCfg(SetStatus(m, m.cur.obj, "STOPPED"))), w)

\* stop_instance_async, lines 1083-1091: after run_docker_compose returned
StopAfter(m, res, w) ==
    LET o == m.cur.obj
    IN  IF res.ok
        THEN StopDone(RefreshTable(SaveCfg(SetStatus(m, o, "STOPPED"))), w)
        ELSE StopDone(ShowError(RefreshTable(SetStatus(m, o, "ERROR")),
                                "stop_failed", m.heap[o].name, res.msg), w)

\* stop_instance_async, lines 1093-1096: the except branch
StopExcept(m, e, w) ==
    StopDone(ShowError(RefreshTable(SetStatus(m, m.cur.obj, "ERROR")),
                       "stop_exception", "", e), w)

\* what a direct caller of run_docker_compose gets: the pair it returns,
\* or the exception that leaves it
Returned(res) == [raised |-> "", ok |-> res.ok, msg |-> res.msg]
Raised(e) == [raised |-> e, ok |-> FALSE, msg |-> ""]

\* the direct call of run_docker_compose has ended with value
CallEnds(m, value) ==
    Finish([m EXCEPT !.observed =
               Append(@, Observation(m.cur.phase, m.heap[m.cur.obj].name,
                                     value))])

\* run_docker_compose has returned res to the coroutine, or to a direct
\* caller
RdcReturn(m, res, w) ==
    IF m.cur.op = "call" THEN CallEnds(m, Returned(res))
    ELSE CASE m.cur.phase = "up"   -> StartAfterUp(m, res, w)
           [] m.cur.phase = "stop" -> StopAfter(m, res, w)
           [] m.cur.phase = "down" -> DeleteAfterDown(m, res, w)

\* an exception leaves run_docker_compose: the caller's except branch, or
\* a direct caller
RdcRaise(m, e, w) ==
    IF m.cur.op = "call" THEN CallEnds(m, Raised(e))
    ELSE CASE m.cur.phase = "up"   -> StartExcept(m, e)
           [] m.cur.phase = "stop" -> StopExcept(m, e, w)
           [] m.cur.phase = "down" -> DeleteExcept(m, e)

\* a run_docker_compose that lets the missing binary surface as an exception
RdcSelectRaising(m, action, e, plugin, w) ==
    LET o == m.cur.obj
        inst == m.heap[o]
        flags == IF action = "up" THEN {"-d"} ELSE {}
    IN  IF plugin
        THEN Block(m, "cmd", Proc(inst, o, "docker compose", action, flags),
                   NoEnv)
        ELSE IF e.legacy
        THEN Block(m, "cmd", Proc(inst, o, "docker-compose", action, flags),
                   NoEnv)
        ELSE RdcRaise(m, "FileNotFoundError", w)

\* run_docker_compose, lines 761-780: choose the command line and launch it
RdcSelect(m, action, e, plugin, w) ==
    LET o == m.cur.obj
        inst == m.heap[o]
        flags == IF action = "up" THEN {"-d"} ELSE {}
    IN  IF plugin
        THEN Block(m, "cmd", Proc(inst, o, "docker compose", action, flags),
                   NoEnv)
        ELSE IF e.legacy
        THEN Block(m, "cmd", Proc(inst, o, "docker-compose", action, flags),
                   NoEnv)
        ELSE RdcReturn(m, [ok |-> FALSE, msg |-> NotFoundMsg], w)

\* run_docker_compose, lines 719-759: write the compose file if the record
\* has none (save_docker_compose, which may raise), then probe the plugin
RdcEnter(m, action, w) ==
    LET o == m.cur.obj
        inst == m.heap[o]
        m1 == IF inst.compose_file = NoPath
              THEN [m EXCEPT !.heap[o].compose_file = ComposePath(inst)]
              ELSE m
    IN  IF inst.compose_file = NoPath /\ ~w.fsOk
        THEN RdcRaise(m, "OSError", w)
        ELSE IF w.env.docker
        THEN Block(m1, "probe",
                   Proc(inst, o, "docker compose", "version", {}), w.env)
        ELSE RdcSelect(m1, action, w.env, FALSE, w)

\* a start_instance_async that leaves an instance in error alone
StartBodyUnlessError(m, w) ==
    IF m.heap[m.cur.obj].status = "ERROR"
    THEN Finish(m)
    ELSE RdcEnter([RefreshTable(SetStatus(m, m.cur.obj, "STARTING"))
                      EXCEPT !.cur.phase = "up"], "up", w)

\* start_instance_async, lines 1047-1052
StartBody(m, w) ==
    RdcEnter([RefreshTable(SetStatus(m, m.cur.obj, "STARTING"))
                 EXCEPT !.cur.phase = "up"], "up", w)

\* stop_instance_async, lines 1077-1082
StopBody(m, w) ==
    RdcEnter([RefreshTable(SetStatus(m, m.cur.obj, "STOPPING"))
                 EXCEPT !.cur.phase = "stop"], "stop", w)

\* delete_instance_async, lines 1109-1111
DeleteTeardown(m, w) ==
    RdcEnter([m EXCEPT !.cur.phase = "down"], "down", w)

\* delete_instance_async, lines 1106-1107
DeleteBody(m, w) ==
    IF m.heap[m.cur.obj].status = "RUNNING"
    THEN StopBody([m EXCEPT !.cur.wasRunning = TRUE], w)
    ELSE DeleteTeardown(m, w)

\* the body of the coroutine the loop starts
Body(m, w) ==
    CASE m.cur.op = "start"   -> StartBody(m, w)
      [] m.cur.op = "stop"    -> StopBody(m, w)
      [] m.cur.op = "delete"  -> DeleteBody(m, w)
      [] m.cur.op = "refresh" -> RefreshLoop(m, 1, w)

----------------------------------------------------------------------------
(* Actions. *)

\* objects referenced by the dict, a scheduled coroutine or the running one
Live(ins, q, c) ==
    {Obj(ins[i]) : i \in 1 .. Len(ins)} \cup {q[i].obj : i \in 1 .. Len(q)}
        \cup {c.obj}

\* the id an object has after a step: the object just removed from the dict
\* (its key is gone) moves to the first free id <<n, k>>, k > 0
Rename(m, o) ==
    IF o[2] = 0 /\ o[1] \notin Keys(m.instances) /\ o \in DOMAIN m.heap
    THEN <<o[1], CHOOSE k \in 1 .. (MaxQueue + 3) :
                    /\ <<o[1], k>> \notin DOMAIN m.heap
                    /\ \A j \in 1 .. (k - 1) : <<o[1], j>> \in DOMAIN m.heap>>
    ELSE o

\* the state a step leaves: the machine m and the ready queue q; objects no
\* longer referenced are collected
Apply(m, q) ==
    LET live == Live(m.instances, q, m.cur) \cap DOMAIN m.heap
    IN  /\ heap' = [x \in {Rename(m, o) : o \in live} |->
                       m.heap[CHOOSE o \in live : Rename(m, o) = x]]
        /\ instances' = m.instances
        /\ disk' = m.disk
        /\ queue' = [i \in 1 .. Len(q) |->
                        [q[i] EXCEPT !.obj = Rename(m, q[i].obj)]]
        /\ cur' = [m.cur EXCEPT !.obj = Rename(m, m.cur.obj)]
        /\ inflight' = {[p EXCEPT !.obj = Rename(m, p.obj)] : p \in m.inflight}
        /\ statusBar' = m.statusBar
        /\ writes' = m.writes
        /\ world' = world
        /\ observed' = m.observed

\* the records the create form can hand to create_instance
Form(n, f, ssh) ==
    NewInstance(n, f, DefaultCpuCores, DefaultMemoryMb, "low", ssh,
                DefaultVncPort, DefaultPuid, DefaultPgid)

Requests ==
    {Form("one", FolderA, DefaultSshPort), Form("two", FolderB, DefaultSshPort),
     Form("two", FolderB, OtherSshPort)}

BurstRequests == {Form("one", FolderA, DefaultSshPort)}

\* a create_instance without the test of line 1029
CreateInstanceReplace(inst) ==
    /\ cur = Idle
    /\ LET o == Obj(inst.name)
           h == [x \in DOMAIN heap \cup {o} |->
                    IF x = o THEN inst ELSE heap[x]]
           ins == IF inst.name \in Keys(instances)
                  THEN instances ELSE Append(instances, inst.name)
       IN  Apply(RefreshTable(SaveCfg(
               [Machine EXCEPT !.heap = h, !.instances = ins])), queue)

\* create_instance, lines 1027-1035
CreateInstance(inst) ==
    /\ cur = Idle
    /\ LET m == Machine
           o == Obj(inst.name)
           h == [x \in DOMAIN heap \cup {o} |->
                    IF x = o THEN inst ELSE heap[x]]
       IN  IF inst.name \in Keys(instances)
           THEN Apply(ShowError(m, "already_exists", inst.name, ""), queue)
           ELSE Apply(RefreshTable(SaveCfg(
                    [m EXCEPT !.heap = h,
                              !.instances = Append(instances, inst.name)])),
                      queue)

\* a loop that runs the coroutine created last first
ScheduleFront(op, o, bound) ==
    /\ Len(queue) < bound
    /\ Apply(Machine, <<[op |-> op, obj |-> o]>> \o queue)

\* asyncio.create_task(coro(instance)) from a key binding; at most bound
\* coroutines wait for the event loop
Schedule(op, o, bound) ==
    /\ Len(queue) < bound
    /\ Apply(Machine, Append(queue, [op |-> op, obj |-> o]))

\* action_start_instance, lines 1037-1043
ActionStartInstance(bound) ==
    /\ cur = Idle
    /\ IF instances = <<>>
       THEN Apply(ShowError(Machine, "no_selection", "", ""), queue)
       ELSE \E i \in 1 .. Len(instances) :
               Schedule("start", Obj(instances[i]), bound)

\* action_stop_instance, lines 1069-1073
ActionStopInstance(bound) ==
    /\ cur = Idle
    /\ \E i \in 1 .. Len(instances) :
          Schedule("stop", Obj(instances[i]), bound)

\* action_delete_instance, lines 1098-1102
ActionDeleteInstance(bound) ==
    /\ cur = Idle
    /\ \E i \in 1 .. Len(instances) :
          Schedule("delete", Obj(instances[i]), bound)

\* action_refresh, lines 1216-1218
ActionRefresh(bound) ==
    /\ cur = Idle
    /\ Schedule("refresh", Obj(""), bound)

\* what the binary discovery finds when the step never asks
AnyEnv == [docker |-> FALSE, legacy |-> FALSE]

\* the discoveries a step can ask for once its blocking call has returned:
\* delete goes on from its stop to "down", refresh to the next instance,
\* a start to the status query
NextEnvs ==
    IF \/ cur.op = "delete" /\ cur.phase = "stop"
       \/ cur.op = "refresh" /\ cur.idx < Len(instances)
       \/ cur.phase = "up"
    THEN Envs
    ELSE {AnyEnv}

\* what which("docker") of line 1132 can answer, asked after "down" only
NextDocker == IF cur.phase = "down" THEN BOOLEAN ELSE {FALSE}

\* the event loop starts the coroutine scheduled first; it runs until the
\* thread blocks in subprocess.run or the coroutine ends
Starts(fsOk, e) ==
    /\ cur = Idle
    /\ queue # <<>>
    /\ Apply(Body([Machine EXCEPT !.cur = Frame(Head(queue))],
                  World(fsOk, e, FALSE)), Tail(queue))

Dispatch == \E fsOk \in BOOLEAN, e \in Envs : Starts(fsOk, e)

\* the version probe ends: run_docker_compose lines 755-780, or
\* get_compose_status lines 822-838
ProbeEnds(probe, e2) ==
    /\ cur.pc = "probe"
    /\ LET e == cur.env
           w == World(TRUE, e2, FALSE)
           m == Unblock(Machine, probe)
       IN  IF cur.phase = "status"
           THEN IF ProbeRaises(probe)
                THEN Apply(GcsReturn(m, "ERROR", w), queue)
                ELSE Apply(GcsSelect(m, e, StatusPluginByProbe(probe), w),
                           queue)
           ELSE Apply(RdcSelect(m, cur.phase, e, PluginByProbe(probe), w),
                      queue)

ProbeReturn == \E probe \in ProbeOutcomes, e2 \in NextEnvs : ProbeEnds(probe, e2)

\* the compose command of run_docker_compose ends, lines 771-786
CmdEnds(out, e, d) ==
    /\ cur.pc = "cmd"
    /\ Apply(RdcReturn(Unblock(Machine, out.kind), CmdResult(out),
                       World(TRUE, e, d)), queue)

CmdReturn ==
    \E out \in CmdOutcomes, e \in NextEnvs, d \in NextDocker : CmdEnds(out, e, d)

\* the ps query of get_compose_status ends, lines 830-846
PsEnds(out, e) ==
    /\ cur.pc = "ps"
    /\ Apply(GcsReturn(Unblock(Machine, out.kind),
                       PsResult(out, heap[cur.obj]), World(TRUE, e, FALSE)),
             queue)

PsReturn == \E out \in PsOutcomes, e \in NextEnvs : PsEnds(out, e)

\* the "down -v" of delete_instance_async ends, lines 1135-1154
DownvEnds(out) ==
    /\ cur.pc = "downv"
    /\ LET m == Unblock(Machine, out.kind)
       IN  CASE out.kind = "exit"    -> Apply(DeleteRemove(m), queue)
             [] out.kind = "timeout" ->
                   Apply(DeleteExcept(m, "TimeoutExpired"), queue)
             [] out.kind = "oserror" ->
                   Apply(DeleteExcept(m, "OSError"), queue)

DownvReturn == \E out \in CmdOutcomes : DownvEnds(out)

\* InstanceManagerApp.__init__, lines 619-624, with no registry file yet
Init ==
    /\ heap = <<>>
    /\ instances = <<>>
    /\ disk = NoFile
    /\ queue = <<>>
    /\ cur = Idle
    /\ inflight = {}
    /\ statusBar = [kind |-> "summary", name |-> "", detail |-> ""]
    /\ writes = 0
    /\ world = NoWorld
    /\ observed = <<>>

\* two instances, key presses handled one coroutine at a time
Next ==
    \/ \E inst \in Requests : CreateInstance(inst)
    \/ ActionStartInstance(MaxQueue)
    \/ ActionStopInstance(MaxQueue)
    \/ ActionDeleteInstance(MaxQueue)
    \/ ActionRefresh(MaxQueue)
    \/ Dispatch
    \/ ProbeReturn
    \/ CmdReturn
    \/ PsReturn
    \/ DownvReturn

Spec == Init /\ [][Next]_vars

\* one instance name, several key presses handled before the event loop
\* starts the first coroutine
NextBurst ==
    \/ \E inst \in BurstRequests : CreateInstance(inst)
    \/ ActionStartInstance(MaxBurst)
    \/ ActionStopInstance(MaxBurst)
    \/ ActionDeleteInstance(MaxBurst)
    \/ ActionRefresh(MaxBurst)
    \/ Dispatch
    \/ ProbeReturn
    \/ CmdReturn
    \/ PsReturn
    \/ DownvReturn

SpecBurst == Init /\ [][NextBurst]_vars

\* one instance name, each key press handled after the coroutine of the
\* one before has run
NextSingle ==
    \/ \E inst \in BurstRequests : CreateInstance(inst)
    \/ ActionStartInstance(MaxQueue)
    \/ ActionStopInstance(MaxQueue)
    \/ ActionDeleteInstance(MaxQueue)
    \/ ActionRefresh(MaxQueue)
    \/ Dispatch
    \/ ProbeReturn
    \/ CmdReturn
    \/ PsReturn
    \/ DownvReturn

SpecSingle == Init /\ [][NextSingle]_vars

\* the same with the scheduling of the event loop and of the operating
\* system: a coroutine that is ready is started once the loop is free, and
\* every subprocess.run returns, at the latest when its timeout expires
\* (lines 752, 777, 819, 835 and 1139)
FairSingle ==
    /\ SpecSingle
    /\ WF_vars(Dispatch)
    /\ WF_vars(ProbeReturn)
    /\ WF_vars(CmdReturn)
    /\ WF_vars(PsReturn)
    /\ WF_vars(DownvReturn)

----------------------------------------------------------------------------
(* The Registry Store on its own: registries of valid records are saved,   *)
(* and a new process loads the file into its empty dict.                   *)

\* the records a registry can hold under name n
StoredRecords(n) ==
    {[Form(n, f, ssh) EXCEPT
         !.status = st,
         !.compose_file = IF saved THEN ComposePath(Form(n, f, ssh)) ELSE NoPath] :
        f \in Folders, ssh \in {DefaultSshPort, OtherSshPort},
        st \in InstanceStatus, saved \in BOOLEAN}

\* of these, the stopped and running records of folder f on the default
\* ports
PlainRecords(n, f) ==
    {r \in StoredRecords(n) :
        /\ r.workspace_folder = f
        /\ r.ssh_port = DefaultSshPort
        /\ r.status \in {"STOPPED", "RUNNING"}}

\* the key orders of the registries
StoredKeys == {<<>>, <<"one">>, <<"two">>, <<"one", "two">>, <<"two", "one">>}

\* a JSON object without the keys ks, and with the key k set to v
Without(data, ks) == [x \in (DOMAIN data) \ ks |-> data[x]]
With(data, k, v) ==
    [x \in (DOMAIN data) \cup {k} |-> IF x = k THEN v ELSE data[x]]

\* what a registry file can hold for a record: what to_dict wrote; the
\* same without a status, or without the fields later versions added;
\* with the computed properties an older version wrote; with a field this
\* version does not have; with a status that is no member's value;
\* without the workspace folder
FileRecords(inst) ==
    LET data == ToDict(inst)
    IN  {data,
         Without(data, {"status"}),
         Without(data, {"status", "compose_file", "container_id"}),
         With(With(data, "service_name", ServiceName(inst)),
              "hostname", HostName(inst)),
         With(data, "rdp_port", 3390),
         [data EXCEPT !.status = "paused"],
         Without(data, {"workspace_folder"})}

\* the items a registry file can hold under name n for folder f
FileItems(n, f) ==
    {[key |-> n, val |-> val] :
        val \in UNION {FileRecords(inst) : inst \in PlainRecords(n, f)}}

\* the registry files a new process can find
Files ==
    {[exists |-> TRUE, content |-> c, instances |-> <<>>] :
        c \in {"object", "garbled", "unreadable"}}
    \cup {[exists |-> TRUE, content |-> "object", instances |-> <<a>>] :
            a \in FileItems("one", FolderA)}
    \cup {[exists |-> TRUE, content |-> "object", instances |-> <<a, b>>] :
            a \in FileItems("one", FolderA), b \in FileItems("two", FolderB)}

\* either a registry in memory and no file yet, or a new process and a file
InitStore ==
    /\ instances \in StoredKeys
    /\ heap \in [{Obj(instances[i]) : i \in 1 .. Len(instances)} ->
                    UNION {StoredRecords(n) : n \in {"one", "two"}}]
    /\ \A i \in 1 .. Len(instances) :
          heap[Obj(instances[i])].name = instances[i]
    /\ disk \in IF instances = <<>> THEN {NoFile} \cup Files ELSE {NoFile}
    /\ queue = <<>>
    /\ cur = Idle
    /\ inflight = {}
    /\ statusBar = [kind |-> "summary", name |-> "", detail |-> ""]
    /\ writes = 0
    /\ world = NoWorld
    /\ observed = <<>>

\* save_config, lines 965-977
Save == Apply(SaveCfg(Machine), queue)

\* __init__ of a new process, lines 619-624: self.instances = {}, then
\* load_config; the caller keeps what was printed
Load ==
    LET items == LoadConfig(disk, <<>>)
    IN  /\ Len(observed) < MaxCalls
        /\ Apply([Machine EXCEPT
                     !.instances = [i \in 1 .. Len(items) |-> items[i].key],
                     !.heap = [o \in {Obj(items[i].key) : i \in 1 .. Len(items)} |->
                                 (CHOOSE it \in {items[i] : i \in 1 .. Len(items)} :
                                     Obj(it.key) = o).inst],
                     !.observed = Append(@, Observation("load_config", "",
                                                        LoadPrints(disk)))],
                 queue)

NextStore == Save \/ Load

SpecStore == InitStore /\ [][NextStore]_vars

----------------------------------------------------------------------------
(* get_compose_status called directly, as the tests call it, against an     *)
(* external system that stays as it is between the calls.                   *)

\* the external systems: what the binary discovery finds, how the version
\* probe ends and how the ps query ends, each time it is asked
StatusWorlds ==
    [env : Envs, probe : ProbeOutcomes, ps : PsOutcomes, cmd : {"none"},
     fsOk : {TRUE}]

InitStatus ==
    /\ instances = <<"one", "two">>
    /\ heap \in [{Obj("one"), Obj("two")} ->
                    PlainRecords("one", FolderA) \cup
                    PlainRecords("two", FolderB)]
    /\ \A i \in 1 .. Len(instances) :
          heap[Obj(instances[i])].name = instances[i]
    /\ disk = SaveConfig(RegistryValues(heap, instances))
    /\ queue = <<>>
    /\ cur = Idle
    /\ inflight = {}
    /\ statusBar = [kind |-> "summary", name |-> "", detail |-> ""]
    /\ writes = 0
    /\ world \in StatusWorlds
    /\ observed = <<>>

\* get_compose_status(instance), lines 788-822, called on the object o
GetComposeStatus(o) ==
    /\ cur = Idle
    /\ Len(observed) < MaxCalls
    /\ o \in DOMAIN heap
    /\ Apply(GcsEnter([Machine EXCEPT
                          !.cur = [Frame([op |-> "query", obj |-> o])
                                      EXCEPT !.phase = "status"]],
                      World(TRUE, world.env, FALSE)), queue)

\* the version probe of the call ends as this external system ends it
QueryProbeReturn == ProbeEnds(world.probe, AnyEnv)

\* the ps query of the call ends as this external system ends it
QueryPsReturn == PsEnds(world.ps, AnyEnv)

NextStatus ==
    \/ \E n \in {"one", "two"} : GetComposeStatus(Obj(n))
    \/ QueryProbeReturn
    \/ QueryPsReturn

SpecStatus == InitStatus /\ [][NextStatus]_vars

----------------------------------------------------------------------------
(* run_docker_compose called directly, as the tests call it, against an     *)
(* external system that stays as it is between the calls.                   *)

\* the external systems: what the binary discovery finds, how the version
\* probe and the compose command end, and whether a compose file can be
\* written
DriverWorlds ==
    [env : Envs, probe : ProbeOutcomes, ps : {"none"}, cmd : CmdOutcomes,
     fsOk : BOOLEAN]

\* the actions run_docker_compose is called with, lines 1052, 1082, 1111
ComposeActions == {"up", "stop", "down"}

InitDriver ==
    /\ instances = <<"one">>
    /\ heap \in [{Obj("one")} ->
                    {r \in PlainRecords("one", FolderA) :
                        r.status = "STOPPED"}]
    /\ disk = SaveConfig(RegistryValues(heap, instances))
    /\ queue = <<>>
    /\ cur = Idle
    /\ inflight = {}
    /\ statusBar = [kind |-> "summary", name |-> "", detail |-> ""]
    /\ writes = 0
    /\ world \in DriverWorlds
    /\ observed = <<>>

\* run_docker_compose(instance, action), lines 714-759, called on o
RunDockerCompose(o, action) ==
    /\ cur = Idle
    /\ Len(observed) < MaxCalls
    /\ o \in DOMAIN heap
    /\ Apply(RdcEnter([Machine EXCEPT
                          !.cur = [Frame([op |-> "call", obj |-> o])
                                      EXCEPT !.phase = action]],
                      action, World(world.fsOk, world.env, FALSE)), queue)

\* the version probe of the call ends as this external system ends it
CallProbeReturn == ProbeEnds(world.probe, AnyEnv)

\* the compose command of the call ends as this external system ends it
CallCmdReturn == CmdEnds(world.cmd, AnyEnv, FALSE)

NextDriver ==
    \/ \E action \in ComposeActions : RunDockerCompose(Obj("one"), action)
    \/ CallProbeReturn
    \/ CallCmdReturn

SpecDriver == InitDriver /\ [][NextDriver]_vars

----------------------------------------------------------------------------
(* generate_docker_compose, a pure function of the record, called directly. *)

\* the container ports of lines 662 and 663
ContainerSshPort == 22
ContainerVncPort == 5901

\* a second host port for the remote desktop
OtherVncPort == 5902

\* the string f"{host}:{container}" of a port binding, as its two numbers
PortBinding(host, container) == [host |-> host, container |-> container]

\* a generate_docker_compose that restarts only what is running
GenerateDockerComposeByStatus(inst) ==
    LET service_name == ServiceName(inst)
        docker_data == service_name \o <<"_docker_data">>
        home == service_name \o <<"_home">>
    IN  [version |-> "3.8",
         services |->
            [s \in {service_name} |->
                [image |-> "toadbox",
                 container_name |-> HostName(inst),
                 hostname |-> HostName(inst),
                 restart |-> IF inst.status = "RUNNING"
                             THEN "unless-stopped" ELSE "no",
                 environment |-> << <<"PUID=", inst.puid>>,
                                    <<"PGID=", inst.pgid>>,
                                    <<"TERM=xterm-256color">>,
                                    <<"DISPLAY=:1">> >>,
                 ports |-> << PortBinding(inst.ssh_port, ContainerSshPort),
                              PortBinding(inst.vnc_port, ContainerVncPort) >>,
                 volumes |-> << <<inst.workspace_folder, ":/workspace">>,
                                <<docker_data, ":/var/lib/docker">>,
                                <<home, ":/home/user">> >>,
                 networks |-> <<"toadbox_network">>,
                 privileged |-> TRUE,
                 deploy |-> [resources |-> [limits |->
                               [cpus |-> <<inst.cpu_cores>>,
                                memory |-> <<inst.memory_mb, "M">>]]]]],
         volumes |-> [v \in {docker_data, home} |-> [name |-> v]],
         networks |-> [n \in {"toadbox_network"} |-> [driver |-> "bridge"]]]

\* generate_docker_compose, lines 641-697; an f-string is the tuple of its
\* parts
GenerateDockerCompose(inst) ==
    LET service_name == ServiceName(inst)
        docker_data == service_name \o <<"_docker_data">>
        home == service_name \o <<"_home">>
    IN  [version |-> "3.8",
         services |->
            [s \in {service_name} |->
                [image |-> "toadbox",
                 container_name |-> HostName(inst),
                 hostname |-> HostName(inst),
                 restart |-> "unless-stopped",
                 environment |-> << <<"PUID=", inst.puid>>,
                                    <<"PGID=", inst.pgid>>,
                                    <<"TERM=xterm-256color">>,
                                    <<"DISPLAY=:1">> >>,
                 ports |-> << PortBinding(inst.ssh_port, ContainerSshPort),
                              PortBinding(inst.vnc_port, ContainerVncPort) >>,
                 volumes |-> << <<inst.workspace_folder, ":/workspace">>,
                                <<docker_data, ":/var/lib/docker">>,
                                <<home, ":/home/user">> >>,
                 networks |-> <<"toadbox_network">>,
                 privileged |-> TRUE,
                 deploy |-> [resources |-> [limits |->
                               [cpus |-> <<inst.cpu_cores>>,
                                memory |-> <<inst.memory_mb, "M">>]]]]],
         volumes |-> [v \in {docker_data, home} |-> [name |-> v]],
         networks |-> [n \in {"toadbox_network"} |-> [driver |-> "bridge"]]]

\* the records the document is generated for under name n
ComposeRecords(n) ==
    {[r EXCEPT !.vnc_port = vnc] :
        r \in {x \in StoredRecords(n) :
                  x.status = "STOPPED" /\ x.compose_file = NoPath},
        vnc \in {DefaultVncPort, OtherVncPort}}

InitCompose ==
    /\ instances = <<"one", "two">>
    /\ heap \in [{Obj("one"), Obj("two")} ->
                    ComposeRecords("one") \cup ComposeRecords("two")]
    /\ \A i \in 1 .. Len(instances) :
          heap[Obj(instances[i])].name = instances[i]
    /\ disk = SaveConfig(RegistryValues(heap, instances))
    /\ queue = <<>>
    /\ cur = Idle
    /\ inflight = {}
    /\ statusBar = [kind |-> "summary", name |-> "", detail |-> ""]
    /\ writes = 0
    /\ world = NoWorld
    /\ observed = <<>>

\* generate_docker_compose(instance) called on the object o; the caller
\* keeps the record as it was at the call, and the document
Generate(o) ==
    /\ cur = Idle
    /\ Len(observed) < MaxCalls
    /\ o \in DOMAIN heap
    /\ Apply([Machine EXCEPT !.observed =
                 Append(@, Observation("generate_docker_compose",
                                       heap[o],
                                       GenerateDockerCompose(heap[o])))],
             queue)

NextCompose == \E n \in {"one", "two"} : Generate(Obj(n))

SpecCompose == InitCompose /\ [][NextCompose]_vars

\* the records the create form hands over while documents are generated
LiveRequests ==
    {Form("one", FolderA, DefaultSshPort), Form("two", FolderB, OtherSshPort)}

\* two external systems that stay as they are: one where the plugin works
\* and every service is up once started, one without any compose binary
LiveWorlds ==
    {[env |-> [docker |-> TRUE, legacy |-> FALSE], probe |-> "exit0",
      ps |-> [kind |-> "exit", rc |-> 0, stdout |-> ListedServices],
      cmd |-> [kind |-> "exit", rc |-> 0, stderr |-> "", stdout |-> ""],
      fsOk |-> TRUE],
     [env |-> [docker |-> FALSE, legacy |-> FALSE], probe |-> "exit0",
      ps |-> [kind |-> "exit", rc |-> 0, stdout |-> {}],
      cmd |-> [kind |-> "exit", rc |-> 0, stderr |-> "", stdout |-> ""],
      fsOk |-> TRUE]}

InitComposeLive ==
    /\ heap = <<>>
    /\ instances = <<>>
    /\ disk = NoFile
    /\ queue = <<>>
    /\ cur = Idle
    /\ inflight = {}
    /\ statusBar = [kind |-> "summary", name |-> "", detail |-> ""]
    /\ writes = 0
    /\ world \in LiveWorlds
    /\ observed = <<>>

\* the steps of the coroutines against this external system
LiveDispatch == Starts(world.fsOk, world.env)
LiveProbeReturn == ProbeEnds(world.probe, world.env)
LiveCmdReturn == CmdEnds(world.cmd, world.env, world.env.docker)
LivePsReturn == PsEnds(world.ps, world.env)
LiveDownvReturn == DownvEnds(world.cmd)

\* the application at work, and between its operations a caller that
\* generates the document of a record of the registry
NextComposeLive ==
    \/ \E inst \in LiveRequests : CreateInstance(inst)
    \/ ActionStartInstance(MaxQueue)
    \/ ActionStopInstance(MaxQueue)
    \/ ActionDeleteInstance(MaxQueue)
    \/ ActionRefresh(MaxQueue)
    \/ LiveDispatch
    \/ LiveProbeReturn
    \/ LiveCmdReturn
    \/ LivePsReturn
    \/ LiveDownvReturn
    \/ \E n \in {"one", "two"} : Generate(Obj(n))

SpecComposeLive == InitComposeLive /\ [][NextComposeLive]_vars

----------------------------------------------------------------------------
(* The application against an external system that stays as it is, with    *)
(* workspace folders that share their last component.                      *)

\* a third folder, with the same name as FolderA under another parent
FolderC == <<"/", "x", "/", "a", "-", "B">>

\* the records the create form hands over
SharedRequests ==
    {Form("one", FolderA, DefaultSshPort), Form("two", FolderC, OtherSshPort)}

\* the external systems: the two of LiveWorlds, and two where docker is
\* installed beside docker-compose, without its compose plugin or with a
\* "docker compose version" that runs into its timeout. The world
\* fixes what the commands of run_docker_compose and get_compose_status
\* answer; the "down -v" of delete, which may run another binary, ends in
\* any way.
SharedWorlds ==
    LiveWorlds \cup
    {[env |-> [docker |-> TRUE, legacy |-> TRUE], probe |-> probe,
      ps |-> [kind |-> "exit", rc |-> 0, stdout |-> ListedServices],
      cmd |-> [kind |-> "exit", rc |-> 0, stderr |-> "", stdout |-> ""],
      fsOk |-> TRUE] : probe \in {"nonzero", "timeout"}}

InitShared ==
    /\ heap = <<>>
    /\ instances = <<>>
    /\ disk = NoFile
    /\ queue = <<>>
    /\ cur = Idle
    /\ inflight = {}
    /\ statusBar = [kind |-> "summary", name |-> "", detail |-> ""]
    /\ writes = 0
    /\ world \in SharedWorlds
    /\ observed = <<>>

NextShared ==
    \/ \E inst \in SharedRequests : CreateInstance(inst)
    \/ ActionStartInstance(MaxQueue)
    \/ ActionStopInstance(MaxQueue)
    \/ ActionDeleteInstance(MaxQueue)
    \/ ActionRefresh(MaxQueue)
    \/ LiveDispatch
    \/ LiveProbeReturn
    \/ LiveCmdReturn
    \/ LivePsReturn
    \/ DownvReturn

SpecShared == InitShared /\ [][NextShared]_vars

----------------------------------------------------------------------------
(* terminal.py: attach_command called directly.  The variable observed is   *)
(* the log of what the call did: each restore_terminal, each strategy with  *)
(* how it ended, and the value returned.                                    *)

\* the commands restore_terminal runs, lines 18, 22, 26 and 31, by binary
RestoreTools == <<"stty", "tput", "tput", "bash">>

\* the external systems of an attach: how subprocess.run(cmd), pty.spawn
\* (which returns the wait status of the command, or raises) and os.execvp
\* end, and which of restore_terminal's binaries exist
AttachWorlds ==
    [direct : {"exit0", "nonzero", "raises"},
     pty : {"exit0", "nonzero", "raises"},
     exec : {"replaces", "raises"},
     tools : SUBSET {"stty", "tput", "bash"}]

\* the commands attach_command is called with
AttachCommands == {"ssh", "docker"}

\* restore_terminal, lines 15-33: every command is tried, a command that
\* cannot be launched is passed over; the log keeps the ones that ran
RestoreTerminal(m) ==
    [m EXCEPT !.observed =
        Append(@, Observation("restore_terminal", "",
                              SelectSeq(RestoreTools,
                                        LAMBDA t : t \in world.tools)))]

\* a strategy of attach_command has ended
Tried(m, strategy, outcome) ==
    [m EXCEPT !.observed =
        Append(@, Observation(strategy, m.cur.phase, <<outcome>>))]

\* attach_command returns value
AttachReturns(m, value) ==
    Finish([m EXCEPT !.observed =
               Append(@, Observation("attach_command", m.cur.phase,
                                     <<value>>))])

\* a frame of attach_command(cmd) waiting in the strategy pc
AttachFrame(cmd, pc) ==
    [Idle EXCEPT !.op = "attach", !.phase = cmd, !.pc = pc]

\* the calls of attach_command that have returned
AttachCalls ==
    Cardinality({i \in 1 .. Len(observed) :
                    observed[i].call = "attach_command"})

InitAttach ==
    /\ heap = <<>>
    /\ instances = <<>>
    /\ disk = NoFile
    /\ queue = <<>>
    /\ cur = Idle
    /\ inflight = {}
    /\ statusBar = [kind |-> "summary", name |-> "", detail |-> ""]
    /\ writes = 0
    /\ world \in AttachWorlds
    /\ observed = <<>>

\* attach_command(cmd), lines 43-48: sleep, restore_terminal, then the
\* thread waits in subprocess.run(cmd)
AttachCommand(cmd) ==
    /\ cur = Idle
    /\ AttachCalls < MaxCalls
    /\ Apply(RestoreTerminal([Machine EXCEPT
                                 !.cur = AttachFrame(cmd, "direct")]),
             queue)

\* attach_command, lines 68-70: every strategy has failed
AttachFails(m) == AttachReturns(RestoreTerminal(m), "False")

\* subprocess.run(cmd) has ended, lines 48-56
DirectEnds ==
    /\ cur.op = "attach" /\ cur.pc = "direct"
    /\ LET m == Tried(Machine, "subprocess.run", world.direct)
       IN  IF world.direct = "exit0"
           THEN Apply(AttachReturns(m, "True"), queue)
           ELSE Apply([m EXCEPT !.cur.pc = "pty"], queue)

\* pty.spawn(cmd) has ended, lines 56-66: it returned, or it raised and
\* os.execvp either replaces the process or raises too
PtyEnds ==
    /\ cur.op = "attach" /\ cur.pc = "pty"
    /\ LET m == Tried(Machine, "pty.spawn", world.pty)
       IN  IF world.pty # "raises"
           THEN Apply(AttachReturns(m, "True"), queue)
           ELSE IF world.exec = "replaces"
           THEN Apply(Tried([m EXCEPT !.cur.pc = "replaced"],
                            "os.execvp", world.exec), queue)
           ELSE Apply(AttachFails(Tried(m, "os.execvp", world.exec)), queue)

NextAttach ==
    \/ \E cmd \in AttachCommands : AttachCommand(cmd)
    \/ DirectEnds
    \/ PtyEnds

SpecAttach == InitAttach /\ [][NextAttach]_vars

----------------------------------------------------------------------------
(* connect_vnc, reached from its key binding.  The variable observed is the *)
(* log: each self.exit(), each viewer tried with how that ended, and what   *)
(* connect_vnc printed when it returned.                                    *)

\* the viewers of lines 1195-1199, in the order they are tried
VncViewers == <<"vncviewer", "remmina", "tightvncviewer">>

\* how subprocess.run(cmd, check=True) ends for a viewer: it exits 0, it
\* exits non-zero (CalledProcessError), the binary is missing
\* (FileNotFoundError), or the launch fails otherwise (another OSError)
ViewerOutcomes == {"exit0", "nonzero", "missing", "oserror"}

\* the external systems: how each viewer ends whenever it is tried
ViewerWorlds == [viewers : [1 .. Len(VncViewers) -> ViewerOutcomes]]

NoViewerMsg == "No VNC viewer found. Please install vncviewer or remmina."
ConnectFailedMsg == "Failed to connect via VNC"

\* connect_vnc returns, having printed text
ConnectReturns(m, text) ==
    Finish([m EXCEPT !.observed =
               Append(@, Observation("connect_vnc",
                                     m.heap[m.cur.obj].name, <<text>>))])

\* subprocess.run of the k-th viewer has ended with outcome
ViewerTried(m, k, outcome) ==
    [m EXCEPT !.observed =
        Append(@, Observation("subprocess.run", VncViewers[k], <<outcome>>))]

\* a loop that catches only CalledProcessError: a missing binary ends it
RECURSIVE ViewerLoopNoMissing(_, _)
ViewerLoopNoMissing(m, k) ==
    IF k > Len(VncViewers) THEN ConnectReturns(m, NoViewerMsg)
    ELSE LET m1 == [m EXCEPT !.observed =
                       Append(@, Observation("exit", "", <<>>))]
             outcome == world.viewers[k]
         IN  CASE outcome \in {"missing", "oserror"} ->
                    ConnectReturns(ViewerTried(m1, k, outcome),
                                   ConnectFailedMsg)
               [] OTHER ->
                    [m1 EXCEPT !.cur.pc = "viewer", !.cur.idx = k]

\* connect_vnc, lines 1201-1214, from the k-th viewer on: up to the
\* viewer the thread waits for, or to the return
RECURSIVE ViewerLoop(_, _)
ViewerLoop(m, k) ==
    IF k > Len(VncViewers) THEN ConnectReturns(m, NoViewerMsg)
    ELSE LET m1 == [m EXCEPT !.observed =
                       Append(@, Observation("exit", "", <<>>))]
             outcome == world.viewers[k]
         IN  CASE outcome = "missing" ->
                    ViewerLoop(ViewerTried(m1, k, outcome), k + 1)
               [] outcome = "oserror" ->
                    ConnectReturns(ViewerTried(m1, k, outcome),
                                   ConnectFailedMsg)
               [] OTHER ->
                    [m1 EXCEPT !.cur.pc = "viewer", !.cur.idx = k]

\* the calls of connect_vnc that have returned
ConnectCalls ==
    Cardinality({i \in 1 .. Len(observed) :
                    observed[i].call = "connect_vnc"})

InitConnect ==
    /\ instances = <<"one">>
    /\ heap \in [{Obj("one")} -> PlainRecords("one", FolderA)]
    /\ disk = SaveConfig(RegistryValues(heap, instances))
    /\ queue = <<>>
    /\ cur = Idle
    /\ inflight = {}
    /\ statusBar = [kind |-> "summary", name |-> "", detail |-> ""]
    /\ writes = 0
    /\ world \in ViewerWorlds
    /\ observed = <<>>

\* action_connect_vnc, lines 1183-1189, and connect_vnc up to its first
\* wait
ActionConnectVnc ==
    /\ cur = Idle
    /\ ConnectCalls < MaxCalls
    /\ \E i \in 1 .. Len(instances) :
          LET o == Obj(instances[i])
          IN  IF heap[o].status = "RUNNING"
              THEN Apply(ViewerLoop([Machine EXCEPT
                                        !.cur = [Idle EXCEPT !.op = "connect",
                                                             !.obj = o]], 1),
                         queue)
              ELSE Apply(ShowError(Machine, "not_running", "", ""), queue)

\* the viewer the thread waited for has ended, lines 1204-1209
ViewerEnds ==
    /\ cur.op = "connect" /\ cur.pc = "viewer"
    /\ LET k == cur.idx
           m == ViewerTried(Machine, k, world.viewers[k])
       IN  IF world.viewers[k] = "exit0"
           THEN Apply(ConnectReturns(m, ""), queue)
           ELSE Apply(ViewerLoop(m, k + 1), queue)

NextConnect == ActionConnectVnc \/ ViewerEnds

SpecConnect == InitConnect /\ [][NextConnect]_vars

----------------------------------------------------------------------------
(* connect_ssh, reached from its key binding.  The variable observed is the *)
(* log: each self.exit(), each command line handed to subprocess.run, and   *)
(* what connect_ssh printed when it returned.                               *)

\* the decimal digits
DigitChars == <<"0", "1", "2", "3", "4", "5", "6", "7", "8", "9">>

\* str(n) for a natural number, as its characters
RECURSIVE StrOfInt(_)
StrOfInt(n) ==
    IF n < 10 THEN <<DigitChars[n + 1]>>
    ELSE Append(StrOfInt(n \div 10), DigitChars[(n % 10) + 1])

\* the command line of connect_ssh, lines 1167-1170: the binary, the
\* argument of -p and the destination (the two -o options are constant)
SshCommand(inst) ==
    [bin |-> "ssh", port |-> StrOfInt(inst.ssh_port),
     destination |-> "user@localhost"]

\* how subprocess.run(cmd, check=True) ends for ssh
SshOutcomes == {"exit0", "nonzero", "missing", "oserror"}

\* what connect_ssh prints, lines 1177-1181
SshPrints(outcome) ==
    CASE outcome = "exit0"   -> ""
      [] outcome = "nonzero" -> "SSH connection failed"
      [] outcome = "missing" ->
            "SSH client not found. Please install OpenSSH client."
      [] outcome = "oserror" -> "Failed to connect via SSH"

\* the registries of the connect: empty, or one record in any status on
\* either SSH port
SshRecords == {r \in StoredRecords("one") : r.workspace_folder = FolderA}

\* the calls of connect_ssh that have returned
SshCalls ==
    Cardinality({i \in 1 .. Len(observed) : observed[i].call = "connect_ssh"})

InitSsh ==
    /\ \/ /\ instances = <<"one">>
          /\ heap \in [{Obj("one")} -> SshRecords]
       \/ /\ instances = <<>>
          /\ heap = <<>>
    /\ disk = SaveConfig(RegistryValues(heap, instances))
    /\ queue = <<>>
    /\ cur = Idle
    /\ inflight = {}
    /\ statusBar = [kind |-> "summary", name |-> "", detail |-> ""]
    /\ writes = 0
    /\ world \in [ssh : SshOutcomes]
    /\ observed = <<>>

\* connect_ssh, lines 1166-1174: self.exit(), then the thread waits in
\* subprocess.run(cmd)
ConnectSsh(m, o) ==
    [m EXCEPT !.cur = [Idle EXCEPT !.op = "ssh", !.obj = o, !.pc = "ssh"],
              !.observed = @ \o <<Observation("exit", "", <<>>),
                                  Observation("subprocess.run",
                                              SshCommand(m.heap[o]), <<>>)>>]

\* get_selected_instance, lines 1002-1016: the record of the cursor's row,
\* None (the empty set here) for an empty table
SelectedInstance == {Obj(instances[i]) : i \in 1 .. Len(instances)}

\* a key binding that connects to the selected instance in any status
ActionConnectSshAnyStatus ==
    /\ cur = Idle
    /\ SshCalls < MaxCalls
    /\ IF SelectedInstance # {}
       THEN \E o \in SelectedInstance : Apply(ConnectSsh(Machine, o), queue)
       ELSE Apply(ShowError(Machine, "ssh_not_running", "", ""), queue)

\* action_connect_ssh, lines 1156-1162
ActionConnectSsh ==
    /\ cur = Idle
    /\ SshCalls < MaxCalls
    /\ IF \E o \in SelectedInstance : heap[o].status = "RUNNING"
       THEN \E o \in SelectedInstance : Apply(ConnectSsh(Machine, o), queue)
       ELSE Apply(ShowError(Machine, "ssh_not_running", "", ""), queue)

\* subprocess.run(cmd, check=True) has ended, lines 1174-1181
SshEnds ==
    /\ cur.op = "ssh" /\ cur.pc = "ssh"
    /\ Apply(Finish([Machine EXCEPT !.observed =
                        Append(@, Observation("connect_ssh",
                                              heap[cur.obj].name,
                                              <<SshPrints(world.ssh)>>))]),
             queue)

NextSsh == ActionConnectSsh \/ SshEnds

SpecSsh == InitSsh /\ [][NextSsh]_vars

----------------------------------------------------------------------------
(* Delete. *)

\* a step in which a delete_instance_async that found its instance running
\* ends; o is the instance and n its name
DeleteOfRunningEnds(o) ==
    /\ cur' = Idle
    /\ \/ cur.op = "delete" /\ cur.wasRunning /\ cur.obj = o
       \/ /\ cur = Idle /\ queue # <<>> /\ Len(queue') = Len(queue) - 1
          /\ Head(queue) = [op |-> "delete", obj |-> o]
          /\ heap[o].status = "RUNNING"

\* o is the object the dict holds under its name
InRegistry(o, ins) == o[2] = 0 /\ o[1] \in Keys(ins)

\* C1: whenever a delete of an instance that was running when the delete
\* began has completed, whatever its stop, "down" and "down -v" commands
\* did, the instance is absent from self.instances.
DeleteOfRunningRemoves ==
    [][\A o \in DOMAIN heap :
          DeleteOfRunningEnds(o) => ~InRegistry(o, instances')]_vars

----------------------------------------------------------------------------
(* One external command at a time. *)

\* the compose invocations of an instance name that have not returned
Invocations(n) ==
    {p \in inflight : p.name = n /\ p.action \in {"up", "stop", "down"}}

\* C2: at no time are two compose up/stop/down invocations of the same
\* instance name in flight, however the operator's requests for that
\* instance are queued.
OneInvocationPerInstance ==
    \A p \in inflight : Cardinality(Invocations(p.name)) <= 1

\* an "up" is in flight while another lifecycle operation requested for the
\* same instance waits
SecondRequestWaits ==
    \E p \in inflight, i \in 1 .. Len(queue) :
        /\ p.action = "up"
        /\ queue[i].obj = p.obj
        /\ queue[i].op \in {"start", "stop", "delete"}

----------------------------------------------------------------------------
(* Create. *)

\* C3: a create_instance with a name that is already a key leaves every
\* record, the dict and the registry file as they were, and writes nothing.
CreateDuplicateRejected ==
    [][\A inst \in Requests :
          (inst.name \in Keys(instances) /\ CreateInstance(inst))
              => /\ heap' = heap
                 /\ instances' = instances
                 /\ disk' = disk
                 /\ writes' = 0]_vars

\* a create with a taken name has just been turned down
DuplicateTurnedDown ==
    statusBar.kind = "already_exists" /\ statusBar.name \in Keys(instances)

\* C4: no two records of the registry share an ssh_port or share a
\* vnc_port (a create whose port is taken is rejected).
NoSharedPorts ==
    \A i, j \in 1 .. Len(instances) :
        i # j => /\ heap[Obj(instances[i])].ssh_port
                       # heap[Obj(instances[j])].ssh_port
                 /\ heap[Obj(instances[i])].vnc_port
                       # heap[Obj(instances[j])].vnc_port

----------------------------------------------------------------------------
(* Round trip of the registry file. *)

\* C5: loading the file that save_config wrote for the registry R gives R
\* back: the same keys in the same order and, for each key, every field
\* equal, the status as the same enum member.
LoadAfterSaveIsSame ==
    [][(disk = SaveConfig(RegistryValues(heap, instances)) /\ Load)
          => Items(heap', instances') = Items(heap, instances)]_vars

\* a new process has loaded a saved registry of two records, one stopping
\* without a compose file, one in error with one
LoadedSavedRegistry ==
    /\ Len(instances) = 2
    /\ writes = 0
    /\ disk = SaveConfig(RegistryValues(heap, instances))
    /\ heap[Obj("one")].status = "STOPPING"
    /\ heap[Obj("one")].compose_file = NoPath
    /\ heap[Obj("two")].status = "ERROR"
    /\ heap[Obj("two")].compose_file # NoPath

----------------------------------------------------------------------------
(* The status field. *)

\* C6: the status of an instance becomes starting only from stopped or
\* error, and becomes stopping only from running or error; no step goes
\* running -> starting or stopped -> stopping.
StatusFollowsEdges ==
    [][\A o \in DOMAIN heap \cap DOMAIN heap' :
          /\ (heap'[o].status = "STARTING" /\ heap[o].status # "STARTING")
                => heap[o].status \in {"STOPPED", "ERROR"}
          /\ (heap'[o].status = "STOPPING" /\ heap[o].status # "STOPPING")
                => heap[o].status \in {"RUNNING", "ERROR"}]_vars

----------------------------------------------------------------------------
(* Start. *)

\* the coroutine has ended with o in status st (o is gone if nothing
\* refers to it any more)
EndsWith(o, st) ==
    /\ cur' = Idle
    /\ o \in DOMAIN heap' => heap'[o].status = st

\* start_instance_async has ended in failure with the driver's message msg
StartFailed(o, msg) ==
    /\ EndsWith(o, "ERROR")
    /\ statusBar' =
          [kind |-> "start_failed", name |-> heap[o].name, detail |-> msg]

\* the frame is that of a start_instance_async inside its "up"
InUp == cur.op = "start" /\ cur.phase = "up"

\* C7: whenever the "up" of a start returns failure (non-zero exit,
\* timeout, launch error, or neither binary available), the start ends
\* with the instance in status error and the status bar showing the
\* failure with the driver's message.
StartFailureReported ==
    [][/\ \A out \in CmdOutcomes, e \in NextEnvs, d \in NextDocker :
            (InUp /\ ~CmdResult(out).ok /\ CmdEnds(out, e, d))
                => StartFailed(cur.obj, CmdResult(out).msg)
       /\ \A probe \in ProbeOutcomes, e \in NextEnvs :
            (InUp /\ ~PluginByProbe(probe) /\ ~cur.env.legacy
                  /\ ProbeEnds(probe, e))
                => StartFailed(cur.obj, NotFoundMsg)
       /\ \A fsOk \in BOOLEAN, e \in Envs :
            (/\ cur = Idle /\ queue # <<>>
             /\ Head(queue).op = "start"
             /\ fsOk \/ heap[Head(queue).obj].compose_file # NoPath
             /\ ~e.docker /\ ~e.legacy
             /\ Starts(fsOk, e))
                => StartFailed(Head(queue).obj, NotFoundMsg)]_vars

\* a failed start has left its instance in error and its message showing
StartFailureShown ==
    /\ statusBar.kind = "start_failed"
    /\ statusBar.detail = "err"
    /\ statusBar.name \in Keys(instances)
    /\ heap[Obj(statusBar.name)].status = "ERROR"

\* the registry file records the instance o with status st
OnDiskWith(o, st) ==
    /\ disk'.exists
    /\ \E i \in 1 .. Len(disk'.instances) :
          /\ disk'.instances[i].key = heap[o].name
          /\ disk'.instances[i].val.status = StatusValue(st)

\* the frame is that of a start_instance_async whose "up" has succeeded
InStatusOfStart == cur.op = "start" /\ cur.phase = "status"

\* C8: whenever the "up" of a start has succeeded, the start ends with the
\* instance in the status get_compose_status returns, and the registry
\* file records the instance with that status.
StartSuccessPersisted ==
    [][/\ \A out \in PsOutcomes, e \in NextEnvs :
            (InStatusOfStart /\ PsEnds(out, e))
                => LET st == PsResult(out, heap[cur.obj])
                   IN  EndsWith(cur.obj, st) /\ OnDiskWith(cur.obj, st)
       /\ \A probe \in ProbeOutcomes, e \in NextEnvs :
            (InStatusOfStart /\ ProbeEnds(probe, e) /\ cur' = Idle)
                => EndsWith(cur.obj, "ERROR") /\ OnDiskWith(cur.obj, "ERROR")
       /\ \A out \in CmdOutcomes, e \in NextEnvs, d \in NextDocker :
            (InUp /\ CmdResult(out).ok /\ CmdEnds(out, e, d) /\ cur' = Idle)
                => EndsWith(cur.obj, "ERROR") /\ OnDiskWith(cur.obj, "ERROR")
      ]_vars

----------------------------------------------------------------------------
(* Stop. *)

\* the frame is that of a stop_instance_async inside its "stop"
InStop == cur.op = "stop" /\ cur.phase = "stop"

\* the stop goes on with o in status stopping, or has ended with o in error
StoppingOrError(o) ==
    IF cur' = Idle
    THEN EndsWith(o, "ERROR")
    ELSE cur'.obj = o /\ cur'.phase = "stop" /\ heap'[o].status = "STOPPING"

\* C9: a stop sets the status to stopping before its driver call; when the
\* "stop" command has succeeded the stop ends with status stopped, and when
\* the driver fails or raises it ends with status error.
StopMirrorsStart ==
    [][/\ \A fsOk \in BOOLEAN, e \in Envs :
            (/\ cur = Idle /\ queue # <<>>
             /\ Head(queue).op = "stop"
             /\ Starts(fsOk, e))
                => StoppingOrError(Head(queue).obj)
       /\ \A probe \in ProbeOutcomes, e \in NextEnvs :
            (InStop /\ ProbeEnds(probe, e)) => StoppingOrError(cur.obj)
       /\ \A out \in CmdOutcomes, e \in NextEnvs, d \in NextDocker :
            (InStop /\ CmdEnds(out, e, d))
                => EndsWith(cur.obj,
                            IF CmdResult(out).ok THEN "STOPPED" ELSE "ERROR")
      ]_vars

\* a stop is inside its "stop" command, its instance in status stopping
StopCommandRuns ==
    /\ InStop /\ cur.pc = "cmd"
    /\ heap[cur.obj].status = "STOPPING"
    /\ \E p \in inflight : p.action = "stop"

----------------------------------------------------------------------------
(* get_compose_status without a compose file. *)

\* the records refresh_statuses_async passes in a step: from the one after
\* the record it was blocked on to the one before the record it blocks on
Passed ==
    LET lo == IF cur = Idle THEN 1 ELSE cur.idx + 1
        hi == IF cur' = Idle THEN Len(instances) ELSE cur'.idx - 1
    IN  {Obj(instances[i]) : i \in lo .. hi}

\* a step of refresh_statuses_async
RefreshStep ==
    \/ cur.op = "refresh" /\ cur.pc # "idle"
    \/ /\ cur = Idle /\ queue # <<>> /\ Head(queue).op = "refresh"
       /\ Len(queue') = Len(queue) - 1

\* C10: for a record without a compose file get_compose_status returns
\* STOPPED and launches neither the version probe nor the ps query,
\* whatever binaries are installed.
NoFileMeansStopped ==
    [][RefreshStep =>
          /\ \A o \in Passed :
                heap[o].compose_file = NoPath => heap'[o].status = "STOPPED"
          /\ \A p \in inflight' : heap[p.obj].compose_file # NoPath]_vars

\* a refresh has passed a first record that has no compose file and waits
\* for the probe of the second
RefreshPassedNoFile ==
    /\ cur.op = "refresh" /\ cur.idx = 2 /\ cur.pc = "probe"
    /\ heap[Obj(instances[1])].compose_file = NoPath
    /\ heap[Obj(instances[1])].status = "STOPPED"

----------------------------------------------------------------------------
(* The status query. *)

\* the status the classification gives a record with a compose file in the
\* external system x; a probe or a query that cannot be launched is a case
\* the classification does not name
Classified(inst, x, st) ==
    LET asked == x.env.docker
        plugin == asked /\ x.probe = "exit0"
        listed == ServiceName(inst) \in x.ps.stdout
    IN  IF asked /\ x.probe = "timeout" THEN st = "ERROR"
        ELSE IF asked /\ x.probe = "oserror" THEN TRUE
        ELSE IF ~plugin /\ ~x.env.legacy THEN st = "ERROR"
        ELSE CASE x.ps.kind = "timeout" -> st = "ERROR"
               [] x.ps.kind = "oserror" -> TRUE
               [] x.ps.kind = "exit" /\ x.ps.rc # 0 -> st = "ERROR"
               [] x.ps.kind = "exit" /\ x.ps.rc = 0 ->
                      st = IF listed THEN "RUNNING" ELSE "STOPPED"

\* C11: for a record with a compose file get_compose_status returns
\* RUNNING when the ps query exits 0 and lists the record's service name,
\* STOPPED when it exits 0 and does not list it, and ERROR when no compose
\* binary is found, when the probe or the query times out, and when the
\* query exits non-zero.
StatusAsClassified ==
    \A i \in 1 .. Len(observed) :
        LET inst == heap[Obj(observed[i].arg)]
        IN  inst.compose_file # NoPath =>
                Classified(inst, world, observed[i].value)

\* C12: a call of get_compose_status changes no record, neither the
\* queried record's status nor its compose file path, and does not write
\* the registry file; two calls on the same record against the same
\* external system return the same status.
QueryIsPureRead ==
    [][/\ heap' = heap
       /\ instances' = instances
       /\ disk' = disk
       /\ writes' = 0
       /\ \A i, j \in 1 .. Len(observed') :
             observed'[i].arg = observed'[j].arg =>
                 observed'[i].value = observed'[j].value]_vars

\* two calls on one record have returned RUNNING and the record still has
\* the status STOPPED it had before them
QueriedTwice ==
    /\ Len(observed) = 2
    /\ observed[1].arg = observed[2].arg
    /\ observed[1].value = "RUNNING"
    /\ observed[2].value = "RUNNING"
    /\ heap[Obj(observed[1].arg)].status = "STOPPED"
    /\ cur = Idle

----------------------------------------------------------------------------
(* The compose driver. *)

\* the external system gives the plugin: docker is on the path and the
\* version probe exits 0
PluginThere == world.env.docker /\ world.probe = "exit0"

\* the compose file of the i-th call's record was there or could be written
FileReady(i) ==
    world.fsOk \/ heap[Obj(observed[i].arg)].compose_file # NoPath

\* what run_docker_compose gives back when its command ends as the
\* external system ends it
CommandFailure ==
    CASE world.cmd.kind = "timeout" -> Returned([ok |-> FALSE,
                                                 msg |-> "compose timed out"])
      [] world.cmd.kind = "oserror" -> Returned([ok |-> FALSE,
                                                 msg |-> "Failed to run compose"])
      [] world.cmd.kind = "exit" -> Returned([ok |-> FALSE,
                                              msg |-> Output(world.cmd)])

DiscoveryIsOrderedFallback ==
    /\ \A p \in inflight :
          p.action \in ComposeActions =>
              /\ p.bin = IF PluginThere THEN "docker compose"
                         ELSE "docker-compose"
              /\ PluginThere \/ world.env.legacy
    /\ \A i \in 1 .. Len(observed) :
          FileReady(i) =>
              ((~PluginThere /\ ~world.env.legacy)
                  <=> observed[i].value =
                          Returned([ok |-> FALSE, msg |-> NotFoundMsg]))
    /\ (cur.op = "call" /\ cur.pc = "probe") => world.env.docker

\* the probe has timed out and the command runs with docker-compose
FellBackToLegacy ==
    /\ cur.op = "call" /\ cur.pc = "cmd"
    /\ world.env.docker /\ world.probe = "timeout"
    /\ \E p \in inflight : p.bin = "docker-compose" /\ p.action = "up"

----------------------------------------------------------------------------
(* Refresh and the registry file. *)

\* C15: refresh_statuses_async goes through the records in order and
\* writes the registry file exactly once, in the step that ends it, with
\* the registry as it then is; no step that leaves it waiting on a record
\* writes the file.
RefreshWritesOnceAtEnd ==
    [][RefreshStep =>
          IF cur' = Idle
          THEN /\ writes' = 1
               /\ disk' = SaveConfig(RegistryValues(heap', instances'))
          ELSE /\ writes' = 0
               /\ disk' = disk
               /\ cur'.op = "refresh"
               /\ cur'.idx >= cur.idx
               /\ cur'.idx \in 1 .. Len(instances)]_vars

\* the refresh waits on its second record; the first has a new status that
\* the registry file does not have yet
RefreshBetweenRecords ==
    /\ cur.op = "refresh" /\ cur.idx = 2 /\ cur.pc = "ps"
    /\ disk.exists /\ Len(disk.instances) = 2
    /\ disk.instances[1].key = instances[1]
    /\ disk.instances[1].val.status = StatusValue("STOPPED")
    /\ heap[Obj(instances[1])].status = "RUNNING"

\* the registry file holds the names of the registry and, for each name,
\* the status and the compose file path of its record
DiskAgrees ==
    /\ disk.exists
    /\ {disk.instances[i].key : i \in 1 .. Len(disk.instances)} =
          Keys(instances)
    /\ \A i \in 1 .. Len(disk.instances) :
          LET n == disk.instances[i].key
              val == disk.instances[i].val
          IN  n \in Keys(instances) =>
                  /\ val.status = StatusValue(heap[Obj(n)].status)
                  /\ val.compose_file = heap[Obj(n)].compose_file

\* C16: whenever a create, start, stop, delete or refresh has ended, on any
\* path, the registry file agrees with the registry in memory: the same
\* names, and for each name the same status and compose file path.
DiskAgreesWhenIdle ==
    (cur = Idle /\ (instances # <<>> \/ disk.exists)) => DiskAgrees

----------------------------------------------------------------------------
(* Loading the registry file. *)

\* a step in which a new process has loaded the registry file
LoadStep == Len(observed') = Len(observed) + 1

\* what the load of the step printed
Printed == observed'[Len(observed')].value

\* the registry in memory after the step is the sequence of items its
\* (key, record) pairs
LoadedAre(its) ==
    /\ instances' = [i \in 1 .. Len(its) |-> its[i].key]
    /\ DOMAIN heap' = {Obj(its[i].key) : i \in 1 .. Len(its)}
    /\ \A i \in 1 .. Len(its) : heap'[Obj(its[i].key)] = its[i].inst

\* C17: load_config always returns, and with all the file's records or
\* none: a missing file gives the empty registry; a file that cannot be
\* read, is not JSON, or holds a record from_dict cannot decode gives the
\* empty registry and the printed error; any other file gives one record
\* per item.
LoadIsAllOrNothing ==
    [][LoadStep =>
          /\ cur' = Idle
          /\ IF ~disk.exists
             THEN LoadedAre(<<>>) /\ Printed = ""
             ELSE IF \/ disk.content # "object"
                     \/ \E i \in 1 .. Len(disk.instances) :
                           ~FromDict(disk.instances[i].val).ok
             THEN LoadedAre(<<>>) /\ Printed = "Error loading config"
             ELSE /\ Printed = ""
                  /\ instances' = [i \in 1 .. Len(disk.instances) |->
                                      disk.instances[i].key]]_vars

\* a file whose first record decodes and whose second does not has been
\* loaded: the registry is empty and the error was printed
LoadedNothing ==
    /\ observed # <<>>
    /\ observed[Len(observed)].value = "Error loading config"
    /\ instances = <<>> /\ heap = <<>>
    /\ disk.exists /\ Len(disk.instances) = 2
    /\ FromDict(disk.instances[1].val).ok
    /\ ~FromDict(disk.instances[2].val).ok

\* the file with the keys no ToadboxInstance field has taken out of every
\* record
KnownFieldsOnly(file) ==
    [file EXCEPT !.instances =
        [i \in 1 .. Len(file.instances) |->
            [key |-> file.instances[i].key,
             val |-> Without(file.instances[i].val,
                             (DOMAIN file.instances[i].val) \
                                 (InstanceFields \cup
                                     {"service_name", "hostname"}))]]]

\* C18: a record of the file that carries a field ToadboxInstance does not
\* have is loaded as if the field were not there, and the other records of
\* the file are loaded with it.
UnknownFieldsIgnored ==
    [][(LoadStep /\ disk.exists /\ disk.content = "object") =>
          LoadedAre(LoadConfig(KnownFieldsOnly(disk), <<>>))]_vars

\* the member a status value of the file names
MemberOf(v) == CHOOSE s \in InstanceStatus : StatusValue(s) = v

\* C19: a record without a status field is loaded as STOPPED, and a record
\* with one is loaded with the member its value names.
StatusDefaultsToStopped ==
    [][(LoadStep /\ disk.exists /\ instances' # <<>>) =>
          \A i \in 1 .. Len(disk.instances) :
              LET val == disk.instances[i].val
              IN  heap'[Obj(disk.instances[i].key)].status =
                      IF "status" \in DOMAIN val THEN MemberOf(val.status)
                      ELSE "STOPPED"]_vars

\* a file with a record without status and a record saved as running has
\* been loaded
LoadedOldAndNew ==
    /\ observed # <<>>
    /\ Len(instances) = 2
    /\ disk.exists /\ Len(disk.instances) = 2
    /\ "status" \notin DOMAIN disk.instances[1].val
    /\ "status" \in DOMAIN disk.instances[2].val
    /\ disk.instances[2].val.status = "running"
    /\ heap[Obj("one")].status = "STOPPED"
    /\ heap[Obj("two")].status = "RUNNING"

----------------------------------------------------------------------------
(* The compose document. *)

\* the container port of the remote desktop the document is to bind
RemoteDesktopPort == 3389

\* the port bindings a document is to carry for the record inst
OwnPorts(inst) ==
    {PortBinding(inst.ssh_port, ContainerSshPort),
     PortBinding(inst.vnc_port, RemoteDesktopPort)}

\* C20: the document generated for a record has a service under the
\* record's service name whose port bindings are exactly ssh_port -> 22
\* and the remote desktop's host port -> 3389; the documents of two
\* records with different service names and ports each carry their own
\* record's port bindings.
ServiceCarriesOwnPorts ==
    \A i \in 1 .. Len(observed) :
        LET inst == observed[i].arg
            doc == observed[i].value
            ports == doc.services[ServiceName(inst)].ports
        IN  /\ ServiceName(inst) \in DOMAIN doc.services
            /\ {ports[k] : k \in 1 .. Len(ports)} = OwnPorts(inst)

\* the two records have the same field values, whatever their status
SameFields(a, b) == \A f \in InstanceFields \ {"status"} : a[f] = b[f]

\* C21: two calls of generate_docker_compose on records with equal field
\* values give equal documents, whatever the status of the record at
\* either call, whatever else the registry holds and whatever the
\* application has done between the calls.
DocumentDependsOnFieldsOnly ==
    \A i, j \in 1 .. Len(observed) :
        SameFields(observed[i].arg, observed[j].arg) =>
            observed[i].value = observed[j].value

\* the document of a record was generated while it was stopped and again
\* once a start had left it running beside a second record
GeneratedStoppedThenRunning ==
    /\ Len(observed) = 2
    /\ observed[1].arg.status = "STOPPED"
    /\ observed[2].arg.status = "RUNNING"
    /\ SameFields(observed[1].arg, observed[2].arg)
    /\ Len(instances) = 2
    /\ observed[1].value = observed[2].value

----------------------------------------------------------------------------
(* The terminal handoff. *)

\* the log entry i is the first of its call of attach_command
FirstOfCall(i) == i = 1 \/ observed[i - 1].call = "attach_command"

\* C22: attach_command runs restore_terminal before its first strategy
\* and again after the command has returned, whether the direct run
\* exited 0, the pseudo-terminal relay returned, or every strategy failed:
\* in the log each call begins with a restore_terminal and each return is
\* preceded by one that follows the last strategy.
RestoredBeforeAndAfter ==
    \A i \in 1 .. Len(observed) :
        /\ FirstOfCall(i) => observed[i].call = "restore_terminal"
        /\ observed[i].call = "attach_command" =>
               /\ i > 2
               /\ observed[i - 1].call = "restore_terminal"
               /\ ~FirstOfCall(i - 1)

----------------------------------------------------------------------------
(* The remote desktop viewers. *)

\* the log without the self.exit() entries
ViewerLog == SelectSeq(observed, LAMBDA x : x.call # "exit")

\* the place of a viewer in the order of the candidates
Place(v) == CHOOSE k \in 1 .. Len(VncViewers) : VncViewers[k] = v

\* C23: connect_vnc tries its viewers in their fixed order: a viewer whose
\* binary is missing or that exits non-zero is followed by the next one,
\* the first viewer that exits 0 ends the operation with no later viewer
\* launched, and when every viewer has failed connect_vnc prints that no
\* viewer was found and returns.
ViewersTriedInOrder ==
    LET log == ViewerLog
    IN  \A i \in 1 .. Len(log) :
            LET first == i = 1 \/ log[i - 1].call = "connect_vnc"
            IN  IF log[i].call = "subprocess.run"
                THEN IF first THEN Place(log[i].arg) = 1
                     ELSE /\ log[i - 1].value[1] \in {"missing", "nonzero"}
                          /\ Place(log[i].arg) = Place(log[i - 1].arg) + 1
                ELSE /\ ~first
                     /\ CASE log[i - 1].value[1] = "exit0" ->
                                 log[i].value[1] = ""
                           [] log[i - 1].value[1] = "oserror" -> TRUE
                           [] OTHER ->
                                 /\ Place(log[i - 1].arg) = Len(VncViewers)
                                 /\ log[i].value[1] = NoViewerMsg

\* the first viewer was missing, the second exited non-zero and the third
\* exited 0
ThirdViewerConnected ==
    /\ Len(ViewerLog) = 4
    /\ ViewerLog[1].value[1] = "missing"
    /\ ViewerLog[2].value[1] = "nonzero"
    /\ ViewerLog[3].value[1] = "exit0"
    /\ ViewerLog[4] = Observation("connect_vnc", "one", <<"">>)

----------------------------------------------------------------------------
(* What the operations persist and report. *)

\* C24: at the moment the "up" command of a start is launched, the
\* registry file records the instance with the status starting.
StartingIsOnDisk ==
    \A p \in inflight :
        p.action = "up" =>
            /\ disk.exists
            /\ \E i \in 1 .. Len(disk.instances) :
                  /\ disk.instances[i].key = p.name
                  /\ disk.instances[i].val.status = StatusValue("STARTING")

\* no record of the registry comes to be in error in the step
NoNewError ==
    \A n \in Keys(instances) \cap Keys(instances') :
        heap'[Obj(n)].status = "ERROR" => heap[Obj(n)].status = "ERROR"

\* C25: when neither compose binary is found, a refresh or a delete that
\* starts then puts no record of the registry in error; only a start or a
\* stop does.
OnlyStartStopSetError ==
    [][\A fsOk \in BOOLEAN, e \in Envs :
          (/\ cur = Idle /\ queue # <<>>
           /\ Head(queue).op \in {"refresh", "delete"}
           /\ ~e.docker /\ ~e.legacy
           /\ Starts(fsOk, e)) => NoNewError]_vars

\* C26: whenever the "down" of a delete fails, or its "down -v" exits
\* non-zero, the delete ends with the status bar showing the failure to
\* remove the instance.
TeardownFailureShown ==
    [][/\ \A out \in CmdOutcomes, e \in NextEnvs, d \in NextDocker :
            (/\ cur.op = "delete" /\ cur.phase = "down"
             /\ ~CmdResult(out).ok
             /\ CmdEnds(out, e, d)) => statusBar'.kind = "remove_failed"
       /\ \A out \in CmdOutcomes :
            (/\ out.kind = "exit" /\ out.rc # 0
             /\ DownvEnds(out)) => statusBar'.kind = "remove_failed"]_vars

----------------------------------------------------------------------------
(* The compose command lines. *)

\* C27: every compose command runs under the project name that is the
\* service name of its instance, and no other record of the registry has
\* that project name.
ProjectsAreSeparate ==
    \A p \in inflight :
        p.action # "version" =>
            /\ p.project = ServiceName(heap[p.obj])
            /\ \A n \in Keys(instances) \ {p.name} :
                  ServiceName(heap[Obj(n)]) # p.project

\* the compose command of the frame's instance that is running
Running(action) == {p \in inflight : p.obj = cur.obj /\ p.action = action}

\* C28: a compose command has the flag -d iff its action is "up", and a
\* delete whose "down" has succeeded goes on with a "down -v", run with
\* the binary that the discovery selected for the "down".
DetachedUpAndVolumesDown ==
    [][/\ \A p \in inflight' : ("-d" \in p.flags) <=> (p.action = "up")
       /\ (/\ cur.op = "delete" /\ cur.phase = "down" /\ cur.pc = "cmd"
           /\ world.cmd.kind = "exit" /\ world.cmd.rc = 0
           /\ LiveCmdReturn)
              => \E p \in Running("down")' :
                    /\ "-v" \in p.flags
                    /\ \A q \in Running("down") : p.bin = q.bin]_vars

----------------------------------------------------------------------------
(* The order of the steps of a delete, and of two operations. *)

\* the running delete is the delete of an instance that was running
DeletingRunning == cur.op = "delete" /\ cur.wasRunning

\* C29: in the delete of a running instance, when the stop command ends,
\* with success or not, and a compose binary is there, the record is still
\* in the registry and the teardown is launched; no stop command runs
\* beside a teardown; and when a record leaves the registry no command is
\* running any more.
StopThenTeardownThenRemove ==
    [][/\ \A out \in CmdOutcomes, e \in NextEnvs, d \in NextDocker :
             (/\ DeletingRunning /\ cur.phase = "stop"
              /\ e.docker \/ e.legacy
              /\ CmdEnds(out, e, d))
                 => /\ instances' = instances
                    /\ cur'.op = "delete" /\ cur'.phase = "down"
                    /\ \E p \in inflight' :
                          /\ p.obj = cur.obj
                          /\ p.action \in {"version", "down"}
       /\ \A p \in inflight', q \in inflight' :
             p.action = "down" => q.action # "stop"
       /\ Len(instances') < Len(instances) => inflight' = {}]_vars

\* the teardown of a running instance's delete runs after its stop failed
TeardownAfterFailedStop ==
    /\ DeletingRunning /\ cur.phase = "down" /\ cur.pc = "cmd"
    /\ heap[cur.obj].status = "ERROR"
    /\ heap[cur.obj].name \in Keys(instances)
    /\ \E p \in inflight : p.obj = cur.obj /\ p.action = "down"

\* the operation that acts in the step: the running coroutine, or the one
\* the loop starts
Acting == IF cur = Idle THEN Head(queue) ELSE cur

\* the waiting coroutines in the order of the queue, each as its operation
\* and the name of its instance
Issued(q) == [i \in 1 .. Len(q) |-> <<q[i].op, q[i].obj[1]>>]

\* C30: operations run in the order they were issued, one at a time: a new
\* coroutine waits behind those already waiting, the loop starts the one
\* that waited longest and only when none is running, and a status is
\* assigned only by the operation that acts in the step; so no operation
\* issued earlier assigns a status once a later one has begun.
StatusWrittenInIssueOrder ==
    [][/\ \/ Issued(queue') = Issued(queue)
          \/ \E t \in {[op |-> op, obj |-> o] :
                          op \in {"start", "stop", "delete", "refresh"},
                          o \in DOMAIN heap \cup {Obj("")}} :
                Issued(queue') = Issued(Append(queue, t))
          \/ /\ queue # <<>> /\ cur = Idle
             /\ Issued(queue') = Issued(Tail(queue))
       /\ cur # Idle => Issued(queue') = Issued(queue)
       /\ \A o \in DOMAIN heap \cap DOMAIN heap' :
             heap'[o].status # heap[o].status
                => /\ cur = Idle
                      => queue # <<>> /\ Issued(queue') = Issued(Tail(queue))
                   /\ Acting.op = "refresh" \/ Acting.obj = o]_vars

\* a start is running, its instance shows starting, and a stop issued
\* after it for the same instance waits
StopWaitsBehindStart ==
    /\ cur # Idle /\ cur.op = "start"
    /\ heap[cur.obj].status = "STARTING"
    /\ queue # <<>>
    /\ Head(queue) = [op |-> "stop", obj |-> cur.obj]

----------------------------------------------------------------------------
(* The thread while a compose command runs, and coroutines on instances    *)
(* that have left the registry.                                            *)

\* C31: while a compose command launched by a start, stop, delete or
\* refresh runs, the thread can handle another operator event: the refresh
\* key, or a start of an instance.
UiHandlesEventsWhileCommandRuns ==
    inflight # {} =>
        \/ ENABLED ActionRefresh(MaxBurst)
        \/ ENABLED ActionStartInstance(MaxBurst)

\* C32: a compose command runs only for an instance whose name is in the
\* registry; in particular no "up" runs for an absent one.
NoCommandForAbsentInstance ==
    \A p \in inflight : p.name \in Keys(instances)

----------------------------------------------------------------------------
(* Recovery from error. *)

\* the loop is about to start op on an instance whose status is error
ErrorRecovery(op) ==
    /\ cur = Idle /\ queue # <<>>
    /\ Head(queue).op = op
    /\ heap[Head(queue).obj].status = "ERROR"

\* the instance of the coroutine the loop is about to start, a step later
Begun == heap'[cur'.obj]

\* C33: a start of an instance in error is taken up (with a compose binary
\* and a writable folder the instance shows starting and a command runs),
\* and when the status query after a successful "up" ends the instance
\* has the status the query gives; a stop of an instance in error is taken
\* up the same way, and when its "stop" command succeeds the instance is
\* stopped. (An object that nothing refers to any more has no status.)
ErrorIsNotTerminal ==
    [][/\ \A e \in Envs :
             (/\ ErrorRecovery("start") /\ (e.docker \/ e.legacy)
              /\ Starts(TRUE, e))
                 => /\ cur'.op = "start" /\ inflight' # {}
                    /\ Begun.status = "STARTING"
       /\ \A e \in Envs :
             (/\ ErrorRecovery("stop") /\ (e.docker \/ e.legacy)
              /\ Starts(TRUE, e))
                 => /\ cur'.op = "stop" /\ inflight' # {}
                    /\ Begun.status = "STOPPING"
       /\ \A out \in PsOutcomes, e \in NextEnvs :
             (/\ cur.op = "start" /\ cur.phase = "status"
              /\ PsEnds(out, e))
                 => /\ cur' = Idle
                    /\ cur.obj \in DOMAIN heap'
                          => heap'[cur.obj].status
                                = PsResult(out, heap[cur.obj])
       /\ \A out \in CmdOutcomes, e \in NextEnvs, d \in NextDocker :
             (/\ cur.op = "stop" /\ cur.phase = "stop"
              /\ CmdResult(out).ok
              /\ CmdEnds(out, e, d))
                 => /\ cur' = Idle
                    /\ cur.obj \in DOMAIN heap'
                          => heap'[cur.obj].status = "STOPPED"]_vars

\* the registry file shows the instance in error, a start of it has run
\* its "up" with success and queries the status
RestartedFromError ==
    /\ cur.op = "start" /\ cur.phase = "status" /\ cur.pc = "ps"
    /\ cur.obj[2] = 0
    /\ \E i \in 1 .. Len(disk.instances) :
          /\ disk.instances[i].key = cur.obj[1]
          /\ disk.instances[i].val.status = StatusValue("ERROR")

----------------------------------------------------------------------------
(* What attach_command returns. *)

\* the log entries of the call that returned in entry i: those after the
\* return before it
OfCall(i) ==
    {j \in 1 .. (i - 1) :
        \A k \in j .. (i - 1) : observed[k].call # "attach_command"}

\* the log entry j is a strategy that ran the command to exit code 0
Succeeded(j) ==
    /\ observed[j].call \in {"subprocess.run", "pty.spawn"}
    /\ observed[j].value = <<"exit0">>

\* C34: attach_command returns True exactly when the strategy it tried
\* last ran the command to exit code 0, that strategy being the only one
\* of the call that did; it returns False when no strategy did.
TrueIffAStrategySucceeded ==
    \A i \in 1 .. Len(observed) :
        observed[i].call = "attach_command" =>
            /\ observed[i].value = <<"True">>
                  <=> (i > 1 /\ Succeeded(i - 1))
            /\ Cardinality({j \in OfCall(i) : Succeeded(j)}) <= 1

----------------------------------------------------------------------------
(* The SSH client. *)

\* the number a string of decimal digits stands for
RECURSIVE IntOfStr(_)
IntOfStr(t) ==
    IF t = <<>> THEN 0
    ELSE 10 * IntOfStr(SubSeq(t, 1, Len(t) - 1))
            + (CHOOSE d \in 0 .. 9 : DigitChars[d + 1] = t[Len(t)])

\* the command lines handed to subprocess.run so far
Launched(log) == SelectSeq(log, LAMBDA x : x.call = "subprocess.run")

\* the selected instance is there and its recorded status is running
SelectedIsRunning == \E o \in SelectedInstance : heap[o].status = "RUNNING"

\* C35: the SSH key binding, pressed with a selected instance whose status
\* is running, exits the UI and launches ssh for user@localhost on the port
\* that is the instance's ssh_port; pressed with no selection or an
\* instance in another status it launches nothing, does not exit the UI
\* and shows an error; and no other step launches a command.
SshOnlyToRunningInstance ==
    [][/\ (cur = Idle /\ SelectedIsRunning)
             => \E o \in SelectedInstance, c \in {SshCommand(r) : r \in SshRecords} :
                   /\ observed' = observed \o
                         <<Observation("exit", "", <<>>),
                           Observation("subprocess.run", c, <<>>)>>
                   /\ c.bin = "ssh" /\ c.destination = "user@localhost"
                   /\ IntOfStr(c.port) = heap[o].ssh_port
       /\ (cur = Idle /\ ~SelectedIsRunning)
             => /\ observed' = observed
                /\ cur' = Idle
                /\ statusBar'.kind = "ssh_not_running"
       /\ cur # Idle => Launched(observed') = Launched(observed)]_vars

\* ssh has been launched for the instance on the other SSH port
SshLaunchedOnOtherPort ==
    \E i \in 1 .. Len(observed) :
        /\ observed[i].call = "subprocess.run"
        /\ IntOfStr(observed[i].arg.port) = OtherSshPort
        /\ heap[Obj("one")].ssh_port = OtherSshPort

----------------------------------------------------------------------------
(* Termination. *)

\* the step ends a coroutine of operation op
Completes(op) ==
    /\ cur' = Idle
    /\ IF cur = Idle
       THEN queue # <<>> /\ Len(queue') < Len(queue) /\ Head(queue).op = op
       ELSE cur.op = op

\* the statuses that are not in progress
Settled == {"RUNNING", "STOPPED", "ERROR"}

\* C36: every coroutine that occupies the thread ends; when a start ends
\* its instance is not starting, when a stop ends (alone or as the first
\* part of a delete) its instance is not stopping, and when a refresh ends
\* every record of the registry is running, stopped or in error.
OperationsEndSettled ==
    /\ (cur # Idle) ~> (cur = Idle)
    /\ [][/\ (Completes("start") /\ Acting.obj \in DOMAIN heap')
               => heap'[Acting.obj].status # "STARTING"
          /\ (Completes("stop") /\ Acting.obj \in DOMAIN heap')
               => heap'[Acting.obj].status # "STOPPING"
          /\ (/\ cur.op = "delete" /\ cur.phase = "stop"
              /\ cur'.phase # "stop" /\ cur.obj \in DOMAIN heap')
               => heap'[cur.obj].status # "STOPPING"
          /\ Completes("refresh")
               => \A n \in Keys(instances') :
                     heap'[Obj(n)].status \in Settled]_vars

\* a start has ended after its "up" ran into the timeout
StartEndedByTimeout ==
    /\ cur = Idle
    /\ statusBar.kind = "start_failed"
    /\ statusBar.detail = "compose timed out"
    /\ \E n \in Keys(instances) : heap[Obj(n)].status = "ERROR"

----------------------------------------------------------------------------
(* Binary discovery across the commands. *)

\* the compose commands among ps, other than the version probe
Composes(ps) == {p \in ps : p.action # "version"}

\* C37: in a fixed environment every compose command is run with the same
\* binary: a command launched when another has ended (the status query
\* after "up", the "down" after "stop", the "down -v" after "down") uses
\* the binary of the one before; and when docker-compose is installed and
\* the version probe has not exited 0, the command the probe was made for
\* is launched with docker-compose, whether it is a lifecycle command or
\* the status query.
DiscoveryAgrees ==
    [][/\ \A p \in Composes(inflight), q \in Composes(inflight') :
             p.bin = q.bin
       /\ (/\ cur.pc = "probe"
           /\ world.env.legacy /\ world.probe # "exit0"
           /\ LiveProbeReturn)
              => \E q \in Composes(inflight') :
                    /\ q.bin = "docker-compose"
                    /\ q.obj = cur.obj]_vars

----------------------------------------------------------------------------
(* What a lifecycle operation leaves alone. *)

\* the step is one of the coroutine of operation op
StepOf(op) ==
    IF cur = Idle
    THEN queue # <<>> /\ Len(queue') < Len(queue) /\ Head(queue).op = op
    ELSE cur.op = op

\* the fields no lifecycle operation assigns
FixedFields ==
    {"name", "workspace_folder", "ssh_port", "vnc_port", "cpu_cores",
     "memory_mb", "priority", "puid", "pgid"}

\* the objects of the registry before and after the step
Kept == {Obj(n) : n \in Keys(instances) \cap Keys(instances')}

\* C38: a step of a start, a stop or a refresh leaves the registry's
\* entries in place and every record's name, folder, ports, cpu, memory,
\* priority, puid and pgid as they were; a step of a start, a stop or a
\* delete leaves the status and the compose file of every other instance
\* as they were; and a step of a delete removes no entry but the one of
\* its instance.
OperationsTouchOnlyTheirTarget ==
    [][/\ (StepOf("start") \/ StepOf("stop") \/ StepOf("refresh"))
             => /\ instances' = instances
                /\ \A o \in Kept, f \in FixedFields : heap'[o][f] = heap[o][f]
       /\ (StepOf("start") \/ StepOf("stop") \/ StepOf("delete"))
             => \A o \in Kept \ {Acting.obj} :
                   /\ heap'[o].status = heap[o].status
                   /\ heap'[o].compose_file = heap[o].compose_file
       /\ StepOf("delete")
             => /\ \A o \in Kept, f \in FixedFields : heap'[o][f] = heap[o][f]
                /\ \/ instances' = instances
                   \/ instances' = SelectSeq(instances,
                                       LAMBDA n : n # heap[Acting.obj].name)]_vars

\* the volumes of an instance are being removed while the other instance
\* of the registry is running
DeletingBesideRunning ==
    /\ cur.op = "delete" /\ cur.pc = "downv"
    /\ \E n \in Keys(instances) :
          /\ Obj(n) # cur.obj
          /\ heap[Obj(n)].status = "RUNNING"

====
